---------------------------- MODULE Spec2Model ----------------------------
(***************************************************************************)
(* Model of buildbot's JSON status exporter                                *)
(* (master/buildbot/status/web/status_json.py): the resource tree, the     *)
(* path walk, the select= composition of JsonResource.content, the build   *)
(* addressing of AllBuildsJsonResource and the last-N listing of           *)
(* PastBuildsJsonResource.                                                 *)
(*                                                                         *)
(* Strings are sequences of atoms.  An atom is one of the characters the   *)
(* code inspects ("/", "<", "-", "+", a digit) or a block of letters that  *)
(* the code never looks inside ("builders", "bA", ...).                    *)
(***************************************************************************)
EXTENDS Integers, Sequences, FiniteSets, TLC

Digits == {"0", "1", "2", "3", "4", "5", "6", "7", "8", "9"}

DigitVal(c) ==
    CASE c = "0" -> 0 [] c = "1" -> 1 [] c = "2" -> 2 [] c = "3" -> 3
      [] c = "4" -> 4 [] c = "5" -> 5 [] c = "6" -> 6 [] c = "7" -> 7
      [] c = "8" -> 8 [] c = "9" -> 9

Min(a, b) == IF a < b THEN a ELSE b

(* ---------------------------------------------------------------------- *)
(* String helpers of Python used by the code                              *)
(* ---------------------------------------------------------------------- *)

\* s.strip('/')
RECURSIVE LStripSlash(_)
LStripSlash(s) ==
    IF s # <<>> /\ Head(s) = "/" THEN LStripSlash(Tail(s)) ELSE s

RECURSIVE RStripSlash(_)
RStripSlash(s) ==
    IF s # <<>> /\ s[Len(s)] = "/"
    THEN RStripSlash(SubSeq(s, 1, Len(s) - 1))
    ELSE s

StripSlash(s) == RStripSlash(LStripSlash(s))

\* s.count('/')
CountSlash(s) == Cardinality({i \in DOMAIN s : s[i] = "/"})

\* s.split('/'): the pieces between separators, empty pieces included
RECURSIVE SplitAcc(_, _, _)
SplitAcc(s, cur, acc) ==
    IF s = <<>> THEN Append(acc, cur)
    ELSE IF Head(s) = "/" THEN SplitAcc(Tail(s), <<>>, Append(acc, cur))
    ELSE SplitAcc(Tail(s), Append(cur, Head(s)), acc)

SplitSlash(s) == SplitAcc(s, <<>>, <<>>)

\* filter(None, pieces): drops the empty strings
FilterNone(pieces) == SelectSeq(pieces, LAMBDA p : p # <<>>)

\* _IS_INT = re.compile(r'^[-+]?\d+$')
IsAllDigits(s) == Len(s) >= 1 /\ \A i \in DOMAIN s : s[i] \in Digits

IS_INT(s) ==
    /\ s # <<>>
    /\ IF s[1] \in {"-", "+"} THEN IsAllDigits(Tail(s)) ELSE IsAllDigits(s)

RECURSIVE DigitsToNat(_)
DigitsToNat(s) ==
    IF s = <<>> THEN 0
    ELSE DigitsToNat(SubSeq(s, 1, Len(s) - 1)) * 10 + DigitVal(s[Len(s)])

\* int(s) for a string int() accepts; IntParses says whether it raises
IntParses(s) == IS_INT(s)

ToInt(s) ==
    IF s[1] = "-" THEN 0 - DigitsToNat(Tail(s))
    ELSE IF s[1] = "+" THEN DigitsToNat(Tail(s))
    ELSE DigitsToNat(s)

\* path.replace("<", "")
RemoveLt(s) == SelectSeq(s, LAMBDA c : c # "<")

HasLt(s) == \E i \in DOMAIN s : s[i] = "<"

(* ---------------------------------------------------------------------- *)
(* JSON values: the Document and everything asDict returns                *)
(* ---------------------------------------------------------------------- *)

Null == [t |-> "null"]
JBool(b) == [t |-> "bool", b |-> b]
JInt(n) == [t |-> "int", i |-> n]
JStr(s) == [t |-> "str", s |-> s]
JMap(f) == [t |-> "map", m |-> f]
JList(q) == [t |-> "list", l |-> q]

EmptyMap == JMap(<<>>)

\* a mapping with the single entry k: v
One(k, v) == k :> v


(* ---------------------------------------------------------------------- *)
(* State                                                                  *)
(* ---------------------------------------------------------------------- *)

VARIABLES
    store,      \* the status store the resources read (fixed during a request)
    args,       \* request.args other than select
    proj,       \* a queue projection under way: where its asDict is
    children,   \* memoized dynamic children: container node -> (key -> child)
    url,        \* the path segments of the requested URL below /json
    select,     \* request.args.get('select'): a list of strings, or absent
    pc,         \* where the request is
    self,       \* the resource render_GET was called on
    order,      \* the select list after strip and sort (indices into select)
    idx,        \* how many entries of order have been processed
    data,       \* the Document
    node,       \* the Document pointer, as the key path from data
    child,      \* the resource the current walk has reached
    childDict,  \* the value returned by child.asDict (or the error marker)
    prepath,    \* request.prepath
    postpath,   \* request.postpath
    savedPath,  \* the locals prepath and postpath of content
    mergeLog,   \* the entries merged so far, in merge order
    response    \* what render_GET did with the request

vars == <<store, args, proj, children, url, select, pc, self, order, idx, data, node,
          child, childDict, prepath, postpath, savedPath, mergeLog, response>>

(* ---------------------------------------------------------------------- *)
(* Bounds                                                                 *)
(* ---------------------------------------------------------------------- *)

\* the longest select list of a request
MaxSelect == 2

(* ---------------------------------------------------------------------- *)
(* The status store (buildbot.status.*, outside this file)                *)
(* ---------------------------------------------------------------------- *)

BuilderA == <<"bA">>
SlaveA == <<"sA">>
SlaveB == <<"sB">>
StepNames == << <<"compile">>, <<"test">> >>

\* a pending build request of bA: its id, its submit time, the branch of
\* its sources, and whether the store fails the calls that fetch it
Request(brid, submit, branch, fails) ==
    [brid |-> brid, submit |-> submit, branch |-> branch, fails |-> fails]

\* the pending requests of bA in the order the store lists them
PendingLists ==
    << <<Request(1, 30, "trunk", FALSE), Request(2, 10, "dev", FALSE),
         Request(3, 20, "trunk", FALSE)>>,
       <<Request(1, 10, "trunk", FALSE), Request(2, 10, "trunk", FALSE),
         Request(3, 5, "trunk", FALSE)>>,
       <<>>,
       <<Request(1, 30, "trunk", FALSE), Request(2, 10, "trunk", TRUE)>> >>

\* A master: its builders, slaves and projects.  The builder bA is served
\* by the slaves sA and sB; its cache holds the finished builds
\* first .. next-1; build n ran on sA when n is even.  Metrics are enabled
\* or not.  The second master has a builder named "help" as well, the last
\* one has no builder, slave or project configured.
Stores ==
    { [builders |-> <<BuilderA>>, slaves |-> {SlaveA, SlaveB},
       projects |-> {<<"pA">>},
       oldest |-> 0, first |-> 1, next |-> 11, metrics |-> FALSE,
       pending |-> PendingLists[1]],
      [builders |-> <<BuilderA, <<"help">> >>, slaves |-> {SlaveA, SlaveB},
       projects |-> {<<"pA">>},
       oldest |-> 0, first |-> 0, next |-> 3, metrics |-> TRUE,
       pending |-> PendingLists[2]],
      [builders |-> <<BuilderA>>, slaves |-> {SlaveA, SlaveB},
       projects |-> {<<"pA">>},
       oldest |-> 0, first |-> 0, next |-> 0, metrics |-> TRUE,
       pending |-> PendingLists[3]],
      [builders |-> <<BuilderA>>, slaves |-> {SlaveA, SlaveB},
       projects |-> {<<"pA">>},
       oldest |-> 0, first |-> 0, next |-> 3, metrics |-> TRUE,
       pending |-> PendingLists[4]],
      [builders |-> <<>>, slaves |-> {}, projects |-> {},
       oldest |-> 0, first |-> 0, next |-> 0, metrics |-> TRUE,
       pending |-> PendingLists[3]] }

Cached == {n \in store.first .. store.next - 1 : TRUE}

\* every finished build of the builder, on disk or cached
History == {n \in store.oldest .. store.next - 1 : TRUE}

\* the branch of a build's source stamp, and the build's result code
BuildBranch(n) == IF n % 4 = 2 THEN "dev" ELSE "trunk"
BuildResults(n) == IF n % 3 = 0 THEN 2 ELSE 0

\* request.args without select: getCodebasesArg (the branches the codebases
\* must be on), the branch arguments, getResultsArg (empty when absent),
\* max and numbuilds (absent, or one number)
NoArgs ==
    [codebases |-> {}, branch |-> {}, results |-> {}, max |-> <<>>,
     numbuilds |-> <<>>, as_text |-> <<>>, filter |-> <<>>,
     compact |-> <<>>, callback |-> <<>>]

\* builder.foundCodebasesInBuild(build_status, codebases)
FoundCodebasesInBuild(n, codebases) ==
    \A c \in codebases : BuildBranch(n) = c

\* what generateFinishedBuilds keeps: the builds on one of the branches, of
\* the codebases, with one of the results
PassesFilters(n, branches, codebases, results) ==
    /\ branches = {} \/ BuildBranch(n) \in branches
    /\ FoundCodebasesInBuild(n, codebases)
    /\ results = {} \/ BuildResults(n) \in results

\* status.getBuilderNames()
BuilderNameList == store.builders
BuilderNames == {BuilderNameList[i] : i \in DOMAIN BuilderNameList}
SlaveNames == store.slaves
BuilderSlaveNames(b) == store.slaves
SlaveOfBuild(n) == IF n % 2 = 0 THEN SlaveA ELSE SlaveB
ProjectNames == store.projects

\* builder_status.getBuild(number): the build numbered n, or for n < 0 the
\* |n|-th most recent one, from the cache only
NoBuild == [found |-> FALSE, n |-> 0]

GetBuild(n) ==
    IF n >= 0
    THEN IF n \in Cached THEN [found |-> TRUE, n |-> n] ELSE NoBuild
    ELSE LET kth == {c \in Cached : Cardinality({d \in Cached : d > c}) = (0 - n) - 1}
         IN  IF kth = {} THEN NoBuild
             ELSE [found |-> TRUE, n |-> CHOOSE c \in kth : TRUE]

\* the finished builds of the builder, most recent first
RECURSIVE Descending(_)
Descending(S) ==
    IF S = {} THEN <<>>
    ELSE LET top == CHOOSE x \in S : \A y \in S : y <= x
         IN  <<top>> \o Descending(S \ {top})

\* builder_status.generateFinishedBuilds(branches=, codebases=, results=,
\* num_builds=N): the N most recent finished builds that pass the filters,
\* scanned from the history
BuilderFinishedBuilds(num) ==
    LET all == SelectSeq(Descending(History),
                         LAMBDA n : PassesFilters(n, args.branch, args.codebases,
                                                  args.results))
    IN  SubSeq(all, 1, Min(IF num < 0 THEN 0 ELSE num, Len(all)))

\* status.generateFinishedBuilds(builders=...): every finished build of the
\* named builders, most recent first
StatusFinishedBuilds(builders) ==
    IF BuilderA \in builders THEN Descending(History) ELSE <<>>

(* ---------------------------------------------------------------------- *)
(* What the store's objects render as (their asDict), as JSON values      *)
(* ---------------------------------------------------------------------- *)

K(w) == <<w>>

RECURSIVE NatToStr(_)
NatToStr(n) ==
    IF n < 10 THEN <<ToString(n)>>
    ELSE Append(NatToStr(n \div 10), ToString(n % 10))

\* str(n)
IntToStr(n) == IF n < 0 THEN <<"-">> \o NatToStr(0 - n) ELSE NatToStr(n)

\* a dict key that is a Python int, as opposed to the string str(n)
IntKey(n) == <<"#int">> \o IntToStr(n)

\* the members of a set of numbers as a list, ascending
RECURSIVE Ascending(_)
Ascending(S) ==
    IF S = {} THEN <<>>
    ELSE LET low == CHOOSE x \in S : \A y \in S : ~(y < x)
         IN  <<low>> \o Ascending(S \ {low})

BuilderDict(b) ==
    JMap(K("name") :> JStr(b)
      @@ K("slaves") :> JList(<<JStr(SlaveA), JStr(SlaveB)>>)
      @@ K("state") :> JStr(K("idle"))
      @@ K("pendingBuilds") :> JInt(Len(store.pending)))

BuildDict(n) ==
    JMap(K("number") :> JInt(n)
      @@ K("builderName") :> JStr(BuilderA)
      @@ K("slave") :> JStr(SlaveOfBuild(n))
      @@ K("results") :> JInt(BuildResults(n)))

StepDict(n, i) ==
    JMap(K("name") :> JStr(StepNames[i + 1])
      @@ K("step_number") :> JInt(i)
      @@ K("isFinished") :> JBool(TRUE))

SourceStampDict(n) ==
    JMap(K("branch") :> JStr(K(BuildBranch(n)))
      @@ K("revision") :> JStr(IntToStr(n))
      @@ K("changes") :> JList(<<>>))

SlaveDict(s) ==
    JMap(K("name") :> JStr(s)
      @@ K("connected") :> JBool(TRUE)
      @@ K("host") :> Null)

StatusDict ==
    JMap(K("title") :> JStr(K("katana"))
      @@ K("buildbotURL") :> JStr(K("url"))
      @@ K("titleURL") :> JStr(K("url")))

\* BuildRequestStatus.asDict_async
PendingDict(e) ==
    JMap(K("brid") :> JInt(e.brid)
      @@ K("submittedAt") :> JInt(e.submit)
      @@ K("builderName") :> JStr(BuilderA))

MetricsDict == JMap(K("counters") :> EmptyMap @@ K("timers") :> EmptyMap
                    @@ K("alarms") :> EmptyMap)

(* ---------------------------------------------------------------------- *)
(* The resource tree                                                      *)
(* ---------------------------------------------------------------------- *)

RootNode == [k |-> "JsonStatus"]
BuilderNode(b) == [k |-> "Builder", b |-> b]
BuildsNode(b) == [k |-> "Builds", b |-> b]
AllBuildsNode(b) == [k |-> "AllBuilds", b |-> b]
BuildNode(b, n) == [k |-> "Build", b |-> b, n |-> n]
StepsNode(b, n) == [k |-> "BuildSteps", b |-> b, n |-> n]
StepNode(b, n, i) == [k |-> "BuildStep", b |-> b, n |-> n, i |-> i]
SourceStampNode(b, n) == [k |-> "SourceStamp", b |-> b, n |-> n]
ChangesNode(b, n) == [k |-> "Changes", b |-> b, n |-> n]
SlaveNode(s) == [k |-> "Slave", s |-> s]
SlaveBuildsNode(s) == [k |-> "SlaveBuilds", s |-> s]
\* PastBuildsJsonResource(status, number, builder_status=, slave_status=)
PastBuildsNode(num, owner, name) ==
    [k |-> "PastBuilds", num |-> num, owner |-> owner, name |-> name]
\* twisted's NoResource, returned by Resource.getChild
NoResource == [k |-> "NoResource"]
HelpNode == [k |-> "Help"]

\* the classes that define asDict: every JsonResource
IsJsonResource(n) == n.k \notin {"NoResource", "Help"}

\* every resource class of the file sets help, except
\* SingleProjectBuilderJsonResource
HasHelp(n) == IsJsonResource(n) /\ n.k # "SingleProjectBuilder"

\* the children registered with putChild by the constructors
StaticChildren(n) ==
    CASE n.k = "JsonStatus" ->
            K("builders") :> [k |-> "Builders"]
         @@ K("change_sources") :> [k |-> "ChangeSources"]
         @@ K("project") :> [k |-> "Project"]
         @@ K("projects") :> [k |-> "Projects"]
         @@ K("slaves") :> [k |-> "Slaves"]
         @@ K("metrics") :> [k |-> "Metrics"]
         @@ K("buildqueue") :> [k |-> "Queue"]
         @@ K("pending") :> [k |-> "Pending"]
         @@ K("globalstatus") :> [k |-> "Global"]
      [] n.k = "Builders" -> [nm \in BuilderNames |-> BuilderNode(nm)]
      [] n.k = "Builder" ->
            K("builds") :> BuildsNode(n.b)
         @@ K("slaves") :> [k |-> "BuilderSlaves", b |-> n.b]
         @@ K("pendingBuilds") :> [k |-> "BuilderPending", b |-> n.b]
      [] n.k = "BuilderSlaves" -> [nm \in BuilderSlaveNames(n.b) |-> SlaveNode(nm)]
      [] n.k = "Build" ->
            K("source_stamp") :> SourceStampNode(n.b, n.n)
         @@ K("steps") :> StepsNode(n.b, n.n)
      [] n.k = "Builds" -> K("_all") :> AllBuildsNode(n.b)
      [] n.k = "SourceStamp" -> K("changes") :> ChangesNode(n.b, n.n)
      [] n.k = "Slaves" -> [nm \in SlaveNames |-> SlaveNode(nm)]
      [] n.k = "Slave" -> K("builds") :> SlaveBuildsNode(n.s)
      [] n.k = "Projects" ->
            [nm \in ProjectNames |-> [k |-> "SingleProject", p |-> nm]]
      [] n.k = "SingleProject" ->
            [nm \in BuilderNames |-> [k |-> "SingleProjectBuilder", b |-> nm]]
      [] n.k = "Pending" ->
            [nm \in BuilderNames |-> [k |-> "SinglePending", b |-> nm]]
      [] OTHER -> <<>>

\* the containers whose getChild memoizes what it builds
MemoContainers == {StepsNode(BuilderA, n) : n \in Cached}

\* self.children: the static children and the memoized ones
Children(n, ch) ==
    IF n \in DOMAIN ch THEN ch[n] @@ StaticChildren(n) ELSE StaticChildren(n)

\* the outcome of a call: a value, or an exception
Ok(v) == [ok |-> TRUE, v |-> v, err |-> "", ch |-> <<>>]
Raise(e) == [ok |-> FALSE, v |-> Null, err |-> e, ch |-> <<>>]
Found(n, ch) == [ok |-> TRUE, v |-> n, err |-> "", ch |-> ch]

\* resource.Resource.getChild, and getChildWithDefault of the resources
\* that are not JsonResource (ErrorPage.getChild returns the page itself)
ResourceGetChild(n) == NoResource

\* "Defaults to last 15"
DefaultLastN == 15

\* a getChild that reads every integer segment as a build number, its sign
\* dropped
AllBuildsGetChildAbsolute(n, path) ==
    IF IS_INT(path)
    THEN LET num == ToInt(path)
             build_status == GetBuild(IF num < 0 THEN 0 - num ELSE num)
         IN  IF build_status.found
             THEN BuildNode(n.b, build_status.n)
             ELSE ResourceGetChild(n)
    ELSE IF HasLt(path)
    THEN PastBuildsNode(IF IntParses(RemoveLt(path))
                        THEN ToInt(RemoveLt(path)) ELSE DefaultLastN,
                        "builder", n.b)
    ELSE ResourceGetChild(n)

\* a getChild that reads the count after the first marker only
AllBuildsGetChildAfterMarker(n, path) ==
    IF IS_INT(path)
    THEN LET build_status == GetBuild(ToInt(path))
         IN  IF build_status.found
             THEN BuildNode(n.b, build_status.n)
             ELSE ResourceGetChild(n)
    ELSE IF HasLt(path)
    THEN PastBuildsNode(IF Head(path) = "<" /\ IntParses(Tail(path))
                        THEN ToInt(Tail(path)) ELSE DefaultLastN,
                        "builder", n.b)
    ELSE ResourceGetChild(n)

\* AllBuildsJsonResource.getChild called with a string
AllBuildsGetChild(n, path) ==
    IF IS_INT(path)
    THEN LET build_status == GetBuild(ToInt(path))
         IN  IF build_status.found
             THEN BuildNode(n.b, build_status.n)
             ELSE ResourceGetChild(n)
    ELSE IF HasLt(path)
    THEN LET num == IF IntParses(RemoveLt(path))
                    THEN ToInt(RemoveLt(path)) ELSE DefaultLastN
         IN  PastBuildsNode(num, "builder", n.b)
    ELSE ResourceGetChild(n)

\* a getChild that takes the marker at the head of the segment only
SlaveBuildsGetChildLeading(n, path) ==
    IF path # <<>> /\ Head(path) = "<"
    THEN LET num == IF IntParses(Tail(path))
                    THEN ToInt(Tail(path)) ELSE DefaultLastN
         IN  PastBuildsNode(num, "slave", n.s)
    ELSE ResourceGetChild(n)

\* SlaveBuildsJsonResource.getChild
SlaveBuildsGetChild(n, path) ==
    IF HasLt(path)
    THEN LET num == IF IntParses(RemoveLt(path))
                    THEN ToInt(RemoveLt(path)) ELSE DefaultLastN
         IN  PastBuildsNode(num, "slave", n.s)
    ELSE ResourceGetChild(n)

\* the position of a step name in getSteps(), from 0, or -1
StepIndexOfName(path) ==
    IF \E i \in DOMAIN StepNames : StepNames[i] = path
    THEN (CHOOSE i \in DOMAIN StepNames : StepNames[i] = path) - 1
    ELSE 0 - 1

\* a getChild of the steps that builds the step resource and keeps nothing
BuildStepsGetChildUncached(n, path, ch) ==
    LET nsteps == Len(StepNames)
        isInt == IS_INT(path)
        i == IF isInt THEN ToInt(path) ELSE StepIndexOfName(path)
    IN  IF isInt /\ (i >= nsteps \/ i < 0 - nsteps)
        THEN Raise("IndexError")
        ELSE IF ~isInt /\ i < 0
        THEN Found(ResourceGetChild(n), ch)
        ELSE Found(StepNode(n.b, n.n, IF i < 0 THEN nsteps + i ELSE i), ch)

\* BuildStepsJsonResource.getChild, lines 638-643: the step resource is
\* built and put under its index and under its name.  inst tells the
\* objects built for one step apart, numbered in the order of construction:
\* the object built before, if any, is the one held under the index.
PutStep(n, index, key, name, held, ch) ==
    LET c == [k |-> "BuildStep", b |-> n.b, n |-> n.n, i |-> index,
              inst |-> IF key \in DOMAIN held THEN held[key].inst + 1 ELSE 1]
    IN  Found(c, (n :> ((key :> c) @@ (name :> c) @@ held)) @@ ch)

\* BuildStepsJsonResource.getChild: builds the step resource on demand and
\* caches it under its index and under its name
BuildStepsGetChild(n, path, ch) ==
    LET nsteps == Len(StepNames)
        isInt == IS_INT(path)
        i == IF isInt THEN ToInt(path) ELSE StepIndexOfName(path)
    IN  IF isInt /\ (i >= nsteps \/ i < 0 - nsteps)
        THEN Raise("IndexError")
        ELSE IF ~isInt /\ i < 0
        THEN Found(ResourceGetChild(n), ch)
        ELSE LET index == IF i < 0 THEN nsteps + i ELSE i
             IN  PutStep(n, index, IntToStr(index), StepNames[index + 1],
                         IF n \in DOMAIN ch THEN ch[n] ELSE <<>>, ch)

\* JsonResource.getChildWithDefault(path, request); postLen is
\* len(request.postpath) at the call
RECURSIVE GetChildWithDefault(_, _, _, _)
GetChildWithDefault(n, path, postLen, ch) ==
    IF ~IsJsonResource(n) THEN Found(ResourceGetChild(n), ch)
    ELSE IF path = <<>> /\ postLen = 0 THEN Found(n, ch)
    ELSE IF path = K("help") /\ HasHelp(n) THEN Found(HelpNode, ch)
    ELSE IF path \in DOMAIN Children(n, ch) THEN Found(Children(n, ch)[path], ch)
    ELSE CASE n.k = "AllBuilds" -> Found(AllBuildsGetChild(n, path), ch)
           [] n.k = "Builds" ->
                \* BuildsJsonResource.getChild redirects to _all
                GetChildWithDefault(AllBuildsNode(n.b), path, postLen, ch)
           [] n.k = "BuildSteps" -> BuildStepsGetChild(n, path, ch)
           [] n.k = "SlaveBuilds" -> Found(SlaveBuildsGetChild(n, path), ch)
           [] OTHER -> Found(ResourceGetChild(n), ch)

(* ---------------------------------------------------------------------- *)
(* Rendering: asDict                                                      *)
(* ---------------------------------------------------------------------- *)

\* [b.asDict(request) for b in builds]
BuildDicts(q) == [i \in DOMAIN q |-> BuildDict(q[i])]

\* the configured size of the build cache, config.caches['Builds']
CacheSize == Cardinality(Cached)

\* AllBuildsJsonResource.getChildWithDefault(-i, request) as asDict calls
\* it, with an int: the build, or NoResource
AllBuildsChildByInt(i) == GetBuild(i)

\* int(RequestArg(request, 'max', cache_size))
MaxArg == IF args.max = <<>> THEN CacheSize ELSE args.max[1]

\* AllBuildsJsonResource.asDict: for i in range(0, max), the child -i when
\* it is a build that passes the codebases and the results filter
AllBuildsAsDict(n) ==
    LET hits == {i \in 0 .. MaxArg - 1 :
                    /\ AllBuildsChildByInt(0 - i).found
                    /\ FoundCodebasesInBuild(AllBuildsChildByInt(0 - i).n,
                                             args.codebases)
                    /\ \/ args.results = {}
                       \/ BuildResults(AllBuildsChildByInt(0 - i).n) \in args.results}
        nums == {AllBuildsChildByInt(0 - i).n : i \in hits}
    IN  JMap([key \in {IntKey(x) : x \in nums} |->
                BuildDict(CHOOSE x \in nums : IntKey(x) = key)])

\* builder_status.getCachedBuilds(codebases=codebases)
GetCachedBuilds(codebases) ==
    SelectSeq(Ascending(Cached), LAMBDA x : FoundCodebasesInBuild(x, codebases))

\* BuildsJsonResource.asDict: the cached builds of the codebases
BuildsAsDict(n) == JList(BuildDicts(GetCachedBuilds(args.codebases)))

\* PastBuildsJsonResource.asDict, builder_status given
PastBuildsOfBuilder(n) == BuildDicts(BuilderFinishedBuilds(n.num))

\* PastBuildsJsonResource.asDict, slave_status given: the loop over
\* status.generateFinishedBuilds; seen is n, out is recent_builds
RECURSIVE PastBuildsSlaveLoop(_, _, _, _, _)
PastBuildsSlaveLoop(builds, slavename, number, seen, out) ==
    IF builds = <<>> THEN out
    ELSE LET rb == Head(builds)
         IN  IF SlaveOfBuild(rb) = slavename
             THEN IF seen + 1 > number
                  THEN Append(out, BuildDict(rb))
                  ELSE PastBuildsSlaveLoop(Tail(builds), slavename, number,
                                           seen + 1, Append(out, BuildDict(rb)))
             ELSE PastBuildsSlaveLoop(Tail(builds), slavename, number, seen, out)

PastBuildsOfSlave(n) ==
    LET my_builders == {b \in BuilderNames : n.name \in BuilderSlaveNames(b)}
    IN  PastBuildsSlaveLoop(StatusFinishedBuilds(my_builders), n.name, n.num,
                            0, <<>>)

PastBuildsAsDict(n) ==
    IF n.owner = "builder" THEN JList(PastBuildsOfBuilder(n))
    ELSE JList(PastBuildsOfSlave(n))

\* BuildStepsJsonResource.asDict: keyed by the step number, an int
BuildStepsAsDict(n) ==
    JMap([key \in {IntKey(i - 1) : i \in DOMAIN StepNames} |->
            StepDict(n.n, (CHOOSE i \in DOMAIN StepNames : IntKey(i - 1) = key) - 1)])

\* SlaveJsonResource.asDict: the slave's dict and its builders
SlaveAsDict(n) ==
    JMap(K("builders") :> JList(<<JMap(K("name") :> JStr(BuilderA)
                                    @@ K("friendly_name") :> JStr(BuilderA)
                                    @@ K("url") :> JStr(K("url")))>>)
         @@ SlaveDict(n.s).m)

\* SingleProjectBuilderJsonResource.asDict: the builder and its latest build
ProjectBuilderAsDict(n) ==
    LET latest == BuilderFinishedBuilds(1)
    IN  IF latest = <<>> THEN BuilderDict(n.b)
        ELSE JMap(K("latestBuild") :> BuildDict(latest[1]) @@ BuilderDict(n.b).m)

GlobalAsDict ==
    JMap(K("slaves_count") :> JInt(Cardinality(SlaveNames))
      @@ K("slaves_busy") :> JInt(0)
      @@ K("running_builds") :> JInt(0)
      @@ K("build_load") :> JInt(0)
      @@ K("utc") :> JInt(0))

\* the dicts of a list of pending requests, or the failure of the first
\* call that fails
PendingDicts(q) ==
    IF \E i \in DOMAIN q : q[i].fails THEN Raise("BackingStoreFailure")
    ELSE Ok(JList([i \in DOMAIN q |-> PendingDict(q[i])]))

\* QueueJsonResource.asDict: the unclaimed requests as the store lists
\* them
QueueAsDict == PendingDicts(store.pending)

\* BuilderPendingBuildsJsonResource.asDict: gatherResults over the
\* builder's pending requests
BuilderPendingAsDict(n) == PendingDicts(store.pending)

\* foundCodebasesInPendingBuild(br, codebases)
FoundCodebasesInPendingBuild(e, codebases) ==
    \A c \in codebases : e.branch = c

\* the requests left as the store lists them
ListingOrder(q) == q

\* sorted(pending, cmp=sort_queue): by sort_value, stable
RECURSIVE SortQueue(_)
SortQueue(q) ==
    IF q = <<>> THEN <<>>
    ELSE LET least == CHOOSE i \in DOMAIN q :
                         /\ \A j \in DOMAIN q : q[i].submit <= q[j].submit
                         /\ \A j \in 1 .. i - 1 : q[j].submit # q[i].submit
         IN  <<q[least]>>
               \o SortQueue(SubSeq(q, 1, least - 1) \o SubSeq(q, least + 1, Len(q)))

\* SinglePendingBuildsJsonResource.asDict: the pending requests of the
\* codebases, by submit time
SinglePendingAsDict(n) ==
    LET kept == SelectSeq(store.pending,
                          LAMBDA e : FoundCodebasesInPendingBuild(e, args.codebases))
    IN  PendingDicts(SortQueue(kept))

\* asDict of the classes that override it
CustomAsDict(n) ==
    CASE n.k = "Builder" -> Ok(BuilderDict(n.b))
      [] n.k = "Builds" -> Ok(BuildsAsDict(n))
      [] n.k = "AllBuilds" -> Ok(AllBuildsAsDict(n))
      [] n.k = "Build" -> Ok(BuildDict(n.n))
      [] n.k = "PastBuilds" -> Ok(PastBuildsAsDict(n))
      [] n.k = "BuildStep" -> Ok(StepDict(n.n, n.i))
      [] n.k = "BuildSteps" -> Ok(BuildStepsAsDict(n))
      [] n.k = "SourceStamp" -> Ok(SourceStampDict(n.n))
      [] n.k = "ChangeSources" -> Ok(EmptyMap)
      [] n.k = "Project" -> Ok(StatusDict)
      [] n.k = "SingleProject" ->
            Ok(JMap(K("builders") :>
                      JList([i \in DOMAIN BuilderNameList |->
                               ProjectBuilderAsDict([b |-> BuilderNameList[i]])])
                 @@ K("comparisonURL") :> JStr(K("url"))))
      [] n.k = "SingleProjectBuilder" -> Ok(ProjectBuilderAsDict(n))
      [] n.k = "Queue" -> QueueAsDict
      [] n.k = "BuilderPending" -> BuilderPendingAsDict(n)
      [] n.k = "SinglePending" -> SinglePendingAsDict(n)
      [] n.k = "Slave" -> Ok(SlaveAsDict(n))
      [] n.k = "SlaveBuilds" -> Ok(JList(<<>>))
      [] n.k = "Metrics" -> Ok(IF store.metrics THEN MetricsDict ELSE Null)
      [] n.k = "Global" -> Ok(GlobalAsDict)

HasCustomAsDict(n) ==
    n.k \notin {"JsonStatus", "Builders", "BuilderSlaves", "Slaves",
                "Projects", "Pending", "Changes"}

\* JsonResource.asDict, lines 297-299: what getChildWithDefault returns for
\* each name of self.children, when it is a JsonResource
DataChildren(n) ==
    LET got == [name \in DOMAIN StaticChildren(n) |->
                  GetChildWithDefault(n, name, 0, <<>>).v]
    IN  [name \in {x \in DOMAIN got : IsJsonResource(got[x])} |-> got[name]]

\* JsonResource.asDict: by default, every child
RECURSIVE AsDict(_)
AsDict(n) ==
    IF HasCustomAsDict(n) THEN CustomAsDict(n)
    ELSE LET kids == DataChildren(n)
         IN  IF DOMAIN StaticChildren(n) = {}
             THEN IF n.k = "Changes" THEN Ok(EmptyMap)
                  ELSE Raise("NotImplementedError")
             ELSE IF \E name \in DOMAIN kids : ~AsDict(kids[name]).ok
             THEN Raise(AsDict(kids[CHOOSE name \in DOMAIN kids :
                                      ~AsDict(kids[name]).ok]).err)
             ELSE Ok(JMap([name \in DOMAIN kids |-> AsDict(kids[name]).v]))

(* ---------------------------------------------------------------------- *)
(* The Document and its pointer                                           *)
(* ---------------------------------------------------------------------- *)

\* the value a key path leads to
RECURSIVE GetAt(_, _)
GetAt(v, p) == IF p = <<>> THEN v ELSE GetAt(v.m[Head(p)], Tail(p))

\* the Document with the value at a key path set (the last key is created
\* when missing)
RECURSIVE PutAt(_, _, _)
PutAt(v, p, w) ==
    IF p = <<>> THEN w
    ELSE LET sub == IF Head(p) \in DOMAIN v.m THEN v.m[Head(p)] ELSE EmptyMap
         IN  JMap((Head(p) :> PutAt(sub, Tail(p), w)) @@ v.m)

\* a list element dict.update can read as a key and a value
IsPair(e) == e.t = "list" /\ Len(e.l) = 2 /\ e.l[1].t = "str"

RECURSIVE UpdatePairs(_, _)
UpdatePairs(f, q) ==
    IF q = <<>> THEN f
    ELSE UpdatePairs((Head(q).l[1].s :> Head(q).l[2]) @@ f, Tail(q))

\* dict.update(other): a mapping overlays its entries; a sequence must hold
\* pairs (the store's dicts have more than two entries, so a list of them
\* raises ValueError); None is not iterable
DictUpdate(target, other) ==
    CASE other.t = "map" -> Ok(JMap(other.m @@ target.m))
      [] other.t = "list" ->
            IF \A i \in DOMAIN other.l : IsPair(other.l[i])
            THEN Ok(JMap(UpdatePairs(target.m, other.l)))
            ELSE Raise("ValueError")
      [] OTHER -> Raise("TypeError")

NotAvailable == JMap(K("error") :> JStr(K("Not available")))

(* ---------------------------------------------------------------------- *)
(* JsonResource.content: the select walk                                  *)
(* ---------------------------------------------------------------------- *)

\* the key select.sort compares: x.count('/')
\* a sort key that counts the segments between the separators
SortKeyBySegments(s) == Len(FilterNone(SplitSlash(s)))

SortKey(s) == CountSlash(s)

\* select.sort(cmp=..., reverse=True) on the stripped entries; list.sort is
\* stable, also with reverse.  Returns the positions of the entries in
\* processing order.
RECURSIVE SortFrom(_, _, _)
SortFrom(strs, i, sorted) ==
    IF i > Len(strs) THEN sorted
    ELSE LET ahead == Cardinality({j \in DOMAIN sorted :
                                     SortKey(strs[sorted[j]]) >= SortKey(strs[i])})
         IN  SortFrom(strs, i + 1,
                      SubSeq(sorted, 1, ahead) \o <<i>>
                        \o SubSeq(sorted, ahead + 1, Len(sorted)))

\* select = [s.strip('/') for s in select]
Stripped(sel) == [i \in DOMAIN sel |-> StripSlash(sel[i])]

\* a processing order that leaves the entries where the request put them
InputOrder(sel) == [i \in DOMAIN sel |-> i]

\* a processing order that skips the empty entries of a selection that has
\* other entries
SortedOrderSkipEmpty(sel) ==
    LET full == SortFrom(Stripped(sel), 1, <<>>)
    IN  IF \A i \in DOMAIN sel : Stripped(sel)[i] = <<>>
        THEN full
        ELSE SelectSeq(full, LAMBDA i : Stripped(sel)[i] # <<>>)

SortedOrder(sel) == SortFrom(Stripped(sel), 1, <<>>)

\* while request.postpath and not child.isLeaf (no resource here sets
\* isLeaf): one segment per round
RECURSIVE WalkLoop(_)
WalkLoop(w) ==
    IF w.raised \/ w.postpath = <<>> THEN w
    ELSE LET pathElement == Head(w.postpath)
             rest == Tail(w.postpath)
             got == GetChildWithDefault(w.child, pathElement, Len(rest), w.ch)
             stepped == [w EXCEPT
                           !.postpath = rest,
                           !.data = PutAt(w.data, Append(w.node, pathElement), EmptyMap),
                           !.node = Append(w.node, pathElement),
                           !.prepath = Append(w.prepath, pathElement)]
         IN  IF got.ok
             THEN WalkLoop([stepped EXCEPT !.child = got.v, !.ch = got.ch])
             ELSE [stepped EXCEPT !.raised = TRUE, !.err = got.err]

\* one round of "for item in select" up to the call of asDict
WalkItem(root, doc, item, pre, ch) ==
    WalkLoop([raised |-> FALSE, err |-> "", data |-> doc, node |-> <<>>,
              child |-> root, prepath |-> pre,
              postpath |-> FilterNone(SplitSlash(item)), ch |-> ch])

\* a rendering that fails taken for the error marker
RenderChildOrMarker(c) ==
    IF IsJsonResource(c) /\ AsDict(c).ok THEN AsDict(c) ELSE Ok(NotAvailable)

\* hasattr(child, 'asDict'): render it, else the error marker
RenderChild(c) == IF IsJsonResource(c) THEN AsDict(c) ELSE Ok(NotAvailable)

\* node.update(child_dict)
MergeItem(doc, ptr, child_dict) ==
    LET upd == DictUpdate(GetAt(doc, ptr), child_dict)
    IN  IF upd.ok THEN Ok(PutAt(doc, ptr, upd.v)) ELSE upd

\* the whole loop, for a select list, from an empty Document: the Document,
\* or the exception that ends it
RECURSIVE ComposeFrom(_, _, _, _, _)
ComposeFrom(root, strs, ord, doc, ch) ==
    IF ord = <<>> THEN Ok(doc)
    ELSE LET w == WalkItem(root, doc, strs[Head(ord)], <<>>, ch)
             r == RenderChild(w.child)
             m == MergeItem(w.data, w.node, r.v)
         IN  IF w.raised THEN Raise(w.err)
             ELSE IF ~r.ok THEN Raise(r.err)
             ELSE IF ~m.ok THEN Raise(m.err)
             ELSE ComposeFrom(root, strs, Tail(ord), m.v, w.ch)

Compose(root, sel) ==
    ComposeFrom(root, Stripped(sel), SortedOrder(sel), EmptyMap, children)

(* ---------------------------------------------------------------------- *)
(* Requests                                                               *)
(* ---------------------------------------------------------------------- *)

\* segments joined by "/"
RECURSIVE Join(_)
Join(segs) ==
    IF segs = <<>> THEN <<>>
    ELSE IF Len(segs) = 1 THEN segs[1]
    ELSE segs[1] \o <<"/">> \o Join(Tail(segs))

Minus(d) == <<"-", d>>

UrlRoot == <<>>
UrlBuilder == <<K("builders"), BuilderA>>
UrlBuilds == <<K("builders"), BuilderA, K("builds")>>
UrlBuildsSlash == <<K("builders"), BuilderA, K("builds"), <<>> >>
UrlBuild == <<K("builders"), BuilderA, K("builds"), Minus("1")>>
UrlLastBuilder == <<K("builders"), BuilderA, K("builds"), <<"<", "2">> >>
UrlLastSlave == <<K("slaves"), SlaveA, K("builds"), <<"<", "1">> >>
UrlMissing == <<K("builders"), K("nobody")>>
UrlBuilders == <<K("builders")>>
UrlQueue == <<K("buildqueue")>>
UrlPending == <<K("pending"), BuilderA>>
UrlBuilderPending == <<K("builders"), BuilderA, K("pendingBuilds")>>
UrlAll == <<K("builders"), BuilderA, K("builds"), K("_all")>>
UrlLastFive == <<K("builders"), BuilderA, K("builds"), <<"<", "5">> >>
UrlLastTwice == <<K("builders"), BuilderA, K("builds"), <<"<", "5", "<">> >>
UrlLastAbc == <<K("slaves"), SlaveA, K("builds"), <<"<", "a", "b", "c">> >>
UrlLastNegative == <<K("builders"), BuilderA, K("builds"), <<"-", "<", "2">> >>
UrlSlaveMarkerLast == <<K("slaves"), SlaveA, K("builds"), <<"-", "1", "<">> >>

\* the URLs requested, as the segments below the exporter's root
Urls == {UrlRoot, UrlBuilder, UrlBuilds, UrlBuildsSlash, UrlBuild,
         UrlLastBuilder, UrlLastSlave, UrlMissing, UrlLastFive,
         UrlLastTwice, UrlLastAbc, UrlAll, UrlQueue, UrlPending,
         UrlBuilderPending, UrlBuilders, UrlLastNegative, UrlSlaveMarkerLast}

\* the select= values tried on each URL
SelectPool(u) ==
    CASE u = UrlRoot ->
            { <<>>,
              Join(<<K("builders"), BuilderA>>),
              Join(<<K("builders"), BuilderA, K("builds")>>),
              <<"/">> \o Join(<<K("slaves"), SlaveA>>) \o <<"/">>,
              K("metrics"),
              Join(<<K("pending"), BuilderA>>),
              Join(<<K("project"), K("x")>>),
              K("nothing") }
      [] u = UrlBuilder ->
            { <<>>,
              K("slaves"),
              K("builds"),
              Join(<<K("slaves"), SlaveA>>),
              Join(<<K("builds"), Minus("1")>>),
              K("builds") \o <<"/", "/">> \o Minus("1") }
      [] u = UrlBuilds ->
            { Minus("1"), Minus("3"), <<"7">>, <<"-", "2", "0">>,
              <<"1", "<", "<">>,
              Join(<<Minus("1"), K("source_stamp")>>),
              Join(<<Minus("1"), K("steps")>>) }
      [] u = UrlBuild ->
            { <<>>,
              K("source_stamp"),
              Join(<<K("steps"), <<"0">> >>),
              Join(<<K("steps"), <<"9">> >>),
              Join(<<K("steps"), Minus("1")>>),
              Join(<<K("steps"), Minus("2")>>),
              Join(<<K("source_stamp"), K("changes")>>),
              K("help") }
      [] OTHER -> { <<>> }

\* request.args.get('select'): absent (the empty list here), or the values
\* of the select= arguments in the order given
Selects(u) ==
    { <<>> } \cup UNION { [1 .. n -> SelectPool(u)] : n \in 1 .. MaxSelect }

\* the arguments tried beside select: none, or one filter or bound
ArgSets ==
    { NoArgs,
      [NoArgs EXCEPT !.codebases = {"trunk"}],
      [NoArgs EXCEPT !.branch = {"trunk"}],
      [NoArgs EXCEPT !.results = {0}],
      [NoArgs EXCEPT !.max = <<2>>],
      [NoArgs EXCEPT !.numbuilds = <<11>>] }

\* the arguments are varied on the requests of at most one select entry
Args(sel) == IF Len(sel) <= 1 THEN ArgSets ELSE {NoArgs}

(* ---------------------------------------------------------------------- *)
(* Actions                                                                *)
(* ---------------------------------------------------------------------- *)

\* no queue projection runs
IdleProj ==
    [scope |-> "idle", pc |-> "done", builds |-> <<>>, i |-> 0,
     pending |-> <<>>, started |-> {}, fired |-> {}, output |-> <<>>,
     seen |-> {}, name |-> <<>>, dict |-> <<>>, result |-> "none"]

Init ==
    /\ store \in Stores
    /\ children = [c \in MemoContainers |-> <<>>]
    /\ url \in Urls
    /\ select \in Selects(url)
    /\ args \in Args(select)
    /\ proj = IdleProj
    /\ pc = "resolve"
    /\ self = RootNode
    /\ order = <<>>
    /\ idx = 0
    /\ data = Null
    /\ node = <<>>
    /\ child = RootNode
    /\ childDict = Ok(Null)
    /\ prepath = <<>>
    /\ postpath = url
    /\ savedPath = [prepath |-> <<>>, postpath |-> <<>>]
    /\ mergeLog = <<>>
    /\ response = "none"

\* twisted.web.resource.getChildForRequest: the walk from the exporter's
\* root to the resource that renders the request
RECURSIVE ResolveLoop(_)
ResolveLoop(w) ==
    IF w.raised \/ w.postpath = <<>> THEN w
    ELSE LET pathElement == Head(w.postpath)
             rest == Tail(w.postpath)
             got == GetChildWithDefault(w.child, pathElement, Len(rest), w.ch)
             stepped == [w EXCEPT !.postpath = rest,
                                  !.prepath = Append(w.prepath, pathElement)]
         IN  IF got.ok
             THEN ResolveLoop([stepped EXCEPT !.child = got.v, !.ch = got.ch])
             ELSE [stepped EXCEPT !.raised = TRUE, !.err = got.err]

Resolve ==
    /\ pc = "resolve"
    /\ LET w == ResolveLoop([raised |-> FALSE, err |-> "", child |-> RootNode,
                             prepath |-> prepath, postpath |-> postpath,
                             ch |-> children])
       IN  /\ self' = w.child
           /\ prepath' = w.prepath
           /\ postpath' = w.postpath
           /\ children' = w.ch
           /\ pc' = IF w.raised THEN "raised"
                    ELSE IF IsJsonResource(w.child) THEN "content"
                    ELSE "other"
    /\ UNCHANGED <<store, args, proj, url, select, order, idx, data, node, child,
                   childDict, savedPath, mergeLog, response>>

\* content, lines 231-245: the flags, and the select list stripped and sorted
ContentSelect ==
    /\ pc = "content"
    /\ select # <<>>
    /\ order' = SortedOrder(select)
    /\ data' = EmptyMap
    /\ idx' = 0
    /\ pc' = "walk"
    /\ UNCHANGED <<store, args, proj, children, url, select, self, node, child, childDict,
                   prepath, postpath, savedPath, mergeLog, response>>

\* content, lines 246-265: one entry's walk from self, then the call of
\* asDict on the resource reached
SelectWalk ==
    /\ pc = "walk"
    /\ LET item == Stripped(select)[order[idx + 1]]
           w == WalkItem(self, data, item, prepath, children)
           r == RenderChild(w.child)
       IN  /\ savedPath' = [prepath |-> prepath, postpath |-> postpath]
           /\ data' = w.data
           /\ node' = w.node
           /\ child' = w.child
           /\ prepath' = w.prepath
           /\ postpath' = w.postpath
           /\ children' = w.ch
           /\ childDict' = IF w.raised THEN Raise(w.err) ELSE r
           /\ pc' = IF w.raised \/ ~r.ok THEN "raised" ELSE "merge"
    /\ UNCHANGED <<store, args, proj, url, select, self, order, idx, mergeLog, response>>

\* content, lines 270-273: the rendered value is merged at the pointer and
\* the request's paths are put back
SelectMerge ==
    /\ pc = "merge"
    /\ LET m == MergeItem(data, node, childDict.v)
       IN  IF m.ok
           THEN /\ data' = m.v
                /\ prepath' = savedPath.prepath
                /\ postpath' = savedPath.postpath
                /\ idx' = idx + 1
                /\ mergeLog' = Append(mergeLog, order[idx + 1])
                /\ pc' = IF idx + 1 = Len(order) THEN "format" ELSE "walk"
                /\ UNCHANGED childDict
           ELSE /\ childDict' = m
                /\ pc' = "raised"
                /\ UNCHANGED <<data, prepath, postpath, idx, mergeLog>>
    /\ UNCHANGED <<store, args, proj, children, url, select, self, order, node, child,
                   savedPath, response>>

\* content, line 275: no select, the resource's own rendering
ContentPlain ==
    /\ pc = "content"
    /\ select = <<>>
    /\ LET r == AsDict(self)
       IN  /\ childDict' = r
           /\ data' = IF r.ok THEN r.v ELSE data
           /\ pc' = IF r.ok THEN "format" ELSE "raised"
    /\ UNCHANGED <<store, args, proj, children, url, select, self, order, idx, node, child,
                   prepath, postpath, savedPath, mergeLog, response>>

\* content, lines 277-288, and render_GET's handle and ok: the Document is
\* serialized and written, and the request finished
RenderOk ==
    /\ pc = "format"
    /\ response' = "written"
    /\ pc' = "done"
    /\ UNCHANGED <<store, args, proj, children, url, select, self, order, idx, data, node,
                   child, childDict, prepath, postpath, savedPath, mergeLog>>

\* a fail that logs the failure and leaves the request as it is
RenderFailLogged ==
    /\ pc = "raised"
    /\ pc' = "done"
    /\ UNCHANGED <<store, args, proj, children, url, select, self, order, idx, data, node,
                   child, childDict, prepath, postpath, savedPath, mergeLog, response>>

\* render_GET's fail: request.processingFailed
RenderFail ==
    /\ pc = "raised"
    /\ response' = "failed"
    /\ pc' = "done"
    /\ UNCHANGED <<store, args, proj, children, url, select, self, order, idx, data, node,
                   child, childDict, prepath, postpath, savedPath, mergeLog>>

\* the URL names no JsonResource: twisted renders the page found instead
RenderOther ==
    /\ pc = "other"
    /\ response' = "other"
    /\ pc' = "done"
    /\ UNCHANGED <<store, args, proj, children, url, select, self, order, idx, data, node,
                   child, childDict, prepath, postpath, savedPath, mergeLog>>

Next ==
    \/ Resolve
    \/ ContentSelect
    \/ SelectWalk
    \/ SelectMerge
    \/ ContentPlain
    \/ RenderOk
    \/ RenderFail
    \/ RenderOther

Spec == Init /\ [][Next]_vars

(* ---------------------------------------------------------------------- *)
(* Flags, filtering and serialization                                     *)
(* ---------------------------------------------------------------------- *)

\* str.lower(), on the letters the arguments are written with
LowerChar(c) ==
    CASE c = "T" -> "t" [] c = "R" -> "r" [] c = "U" -> "u" [] c = "E" -> "e"
      [] c = "F" -> "f" [] c = "A" -> "a" [] c = "L" -> "l" [] c = "S" -> "s"
      [] OTHER -> c

Lower(str) == [i \in DOMAIN str |-> LowerChar(str[i])]

\* a RequestArgToBool that compares the value as it was written
RequestArgToBoolCased(arg, default) ==
    IF arg = <<>> THEN default
    ELSE IF arg[1] \in {<<"1">>, <<"t", "r", "u", "e">>} THEN TRUE
    ELSE IF arg[1] \in {<<"0">>, <<"f", "a", "l", "s", "e">>} THEN FALSE
    ELSE default

\* RequestArgToBool(request, arg, default); arg is request.args.get(arg),
\* <<>> when the argument is absent
RequestArgToBool(arg, default) ==
    IF arg = <<>> THEN default
    ELSE LET value == Lower(arg[1])
         IN  IF value \in {<<"1">>, <<"t", "r", "u", "e">>} THEN TRUE
             ELSE IF value \in {<<"0">>, <<"f", "a", "l", "s", "e">>} THEN FALSE
             ELSE default

\* content, lines 232-234
AsText == RequestArgToBool(args.as_text, FALSE)
FilterFlag == RequestArgToBool(args.filter, AsText)
CompactFlag == RequestArgToBool(args.compact, ~AsText)

\* x in ('', False, None, [], {}, ()): Python compares with ==, and
\* 0 == False
InEmpties(v) ==
    CASE v.t = "null" -> TRUE
      [] v.t = "bool" -> ~v.b
      [] v.t = "int" -> v.i = 0
      [] v.t = "str" -> v.s = <<>>
      [] v.t = "list" -> v.l = <<>>
      [] v.t = "map" -> DOMAIN v.m = {}

\* a FilterOut that tests the values of a dict before it filters them
RECURSIVE FilterOutUnfiltered(_)
FilterOutUnfiltered(v) ==
    IF v.t = "list"
    THEN LET items == [i \in DOMAIN v.l |-> FilterOutUnfiltered(v.l[i])]
         IN  IF \A i \in DOMAIN items : InEmpties(items[i]) THEN Null
             ELSE JList(items)
    ELSE IF v.t = "map"
    THEN JMap([k \in {x \in DOMAIN v.m : ~InEmpties(v.m[x])} |->
                 FilterOutUnfiltered(v.m[k])])
    ELSE v

\* FilterOut(data)
RECURSIVE FilterOut(_)
FilterOut(v) ==
    IF v.t = "list"
    THEN LET items == [i \in DOMAIN v.l |-> FilterOut(v.l[i])]
         IN  IF \A i \in DOMAIN items : InEmpties(items[i]) THEN Null
             ELSE JList(items)
    ELSE IF v.t = "map"
    THEN JMap([k \in {x \in DOMAIN v.m : ~InEmpties(FilterOut(v.m[x]))} |->
                 FilterOut(v.m[k])])
    ELSE v

\* The serialized text, as a sequence of tokens: punctuation, string
\* literals (the characters between the quotes), numbers (their digits),
\* the literals null, true and false, white space, and the callback name.
Punct(c) == [k |-> "punct", s |-> <<c>>]
Tok(kind, chars) == [k |-> kind, s |-> chars]

\* the characters of a string as json.dumps writes them: the quote and the
\* backslash escaped
RECURSIVE Escape(_)
Escape(str) ==
    IF str = <<>> THEN <<>>
    ELSE IF Head(str) \in {"\"", "\\"} THEN <<"\\", Head(str)>> \o Escape(Tail(str))
    ELSE <<Head(str)>> \o Escape(Tail(str))

\* and as json.loads reads them
RECURSIVE Unescape(_)
Unescape(chars) ==
    IF chars = <<>> THEN <<>>
    ELSE IF Head(chars) = "\\" /\ Len(chars) >= 2
    THEN <<chars[2]>> \o Unescape(Tail(Tail(chars)))
    ELSE <<Head(chars)>> \o Unescape(Tail(chars))

\* a dict key as json.dumps writes it: an int key becomes the string of
\* its digits
KeyText(key) == IF Head(key) = "#int" THEN Tail(key) ELSE key

\* the keys of a dict in the order they are written (the order of the
\* dict, or with sort_keys the sorted order)
RECURSIVE KeysInOrder(_)
KeysInOrder(keys) ==
    IF keys = {} THEN <<>>
    ELSE LET key == CHOOSE x \in keys : TRUE
         IN  <<key>> \o KeysInOrder(keys \ {key})

\* the newline and the indentation json.dumps(indent=2) writes
RECURSIVE Spaces(_)
Spaces(n) == IF n = 0 THEN <<>> ELSE <<" ">> \o Spaces(n - 1)

Newline(compact, depth) ==
    IF compact THEN <<>> ELSE <<Tok("space", <<"\n">> \o Spaces(2 * depth))>>

\* json.dumps(data, separators=(',', ':')), or with compact off
\* json.dumps(data, sort_keys=True, indent=2)
RECURSIVE Dumps(_, _, _)
RECURSIVE DumpsItems(_, _, _)
RECURSIVE DumpsMembers(_, _, _, _)
DumpsItems(items, compact, depth) ==
    IF items = <<>> THEN <<>>
    ELSE Newline(compact, depth) \o Dumps(Head(items), compact, depth)
           \o (IF Len(items) > 1 THEN <<Punct(",")>> ELSE <<>>)
           \o DumpsItems(Tail(items), compact, depth)

DumpsMembers(m, keys, compact, depth) ==
    IF keys = <<>> THEN <<>>
    ELSE Newline(compact, depth)
           \o <<Tok("string", Escape(KeyText(Head(keys)))), Punct(":")>>
           \o (IF compact THEN <<>> ELSE <<Tok("space", <<" ">>)>>)
           \o Dumps(m[Head(keys)], compact, depth)
           \o (IF Len(keys) > 1 THEN <<Punct(",")>> ELSE <<>>)
           \o DumpsMembers(m, Tail(keys), compact, depth)

Dumps(v, compact, depth) ==
    CASE v.t = "null" -> <<Tok("literal", <<"null">>)>>
      [] v.t = "bool" -> <<Tok("literal", IF v.b THEN <<"true">> ELSE <<"false">>)>>
      [] v.t = "int" -> <<Tok("number", IntToStr(v.i))>>
      [] v.t = "str" -> <<Tok("string", Escape(v.s))>>
      [] v.t = "list" ->
            IF v.l = <<>> THEN <<Punct("["), Punct("]")>>
            ELSE <<Punct("[")>> \o DumpsItems(v.l, compact, depth + 1)
                   \o Newline(compact, depth) \o <<Punct("]")>>
      [] v.t = "map" ->
            IF DOMAIN v.m = {} THEN <<Punct("{"), Punct("}")>>
            ELSE <<Punct("{")>>
                   \o DumpsMembers(v.m, KeysInOrder(DOMAIN v.m), compact, depth + 1)
                   \o Newline(compact, depth) \o <<Punct("}")>>

\* json.loads of a text: the value read and the tokens left
RECURSIVE SkipSpace(_)
SkipSpace(toks) ==
    IF toks # <<>> /\ Head(toks).k = "space" THEN SkipSpace(Tail(toks)) ELSE toks

IsPunct(toks, c) == toks # <<>> /\ Head(toks).k = "punct" /\ Head(toks).s = <<c>>

RECURSIVE LoadsValue(_)
RECURSIVE LoadsItems(_, _)
RECURSIVE LoadsMembers(_, _)
LoadsItems(toks, acc) ==
    LET t == SkipSpace(toks)
    IN  IF IsPunct(t, "]") THEN [v |-> JList(acc), rest |-> Tail(t)]
        ELSE IF IsPunct(t, ",") THEN LoadsItems(Tail(t), acc)
        ELSE LET item == LoadsValue(t)
             IN  LoadsItems(item.rest, Append(acc, item.v))

LoadsMembers(toks, acc) ==
    LET t == SkipSpace(toks)
    IN  IF IsPunct(t, "}") THEN [v |-> JMap(acc), rest |-> Tail(t)]
        ELSE IF IsPunct(t, ",") THEN LoadsMembers(Tail(t), acc)
        ELSE LET key == Unescape(Head(t).s)
                 colon == SkipSpace(Tail(t))
                 val == LoadsValue(Tail(colon))
             IN  \* a key read again replaces the one read before
                 LoadsMembers(val.rest, (key :> val.v) @@ acc)

LoadsValue(toks) ==
    LET t == SkipSpace(toks)
        first == Head(t)
    IN  CASE first.k = "literal" ->
               [v |-> IF first.s = <<"null">> THEN Null
                      ELSE JBool(first.s = <<"true">>),
                rest |-> Tail(t)]
          [] first.k = "number" -> [v |-> JInt(ToInt(first.s)), rest |-> Tail(t)]
          [] first.k = "string" -> [v |-> JStr(Unescape(first.s)), rest |-> Tail(t)]
          [] first.k = "punct" /\ first.s = <<"[">> -> LoadsItems(Tail(t), <<>>)
          [] first.k = "punct" /\ first.s = <<"{">> -> LoadsMembers(Tail(t), <<>>)

Loads(toks) == LoadsValue(toks).v

\* re.match(r'^[a-zA-Z$_][a-zA-Z$0-9._]*$', callback): the $ of the
\* pattern matches at the end of the string and before a newline that
\* ends it
Letters ==
    {"a", "b", "c", "d", "e", "f", "g", "h", "i", "j", "k", "l", "m", "n", "o",
     "p", "q", "r", "s", "t", "u", "v", "w", "x", "y", "z",
     "A", "B", "C", "D", "E", "F", "G", "H", "I", "J", "K", "L", "M", "N", "O",
     "P", "Q", "R", "S", "T", "U", "V", "W", "X", "Y", "Z"}

IsIdentifier(str) ==
    /\ str # <<>>
    /\ str[1] \in Letters \cup {"$", "_"}
    /\ \A i \in 2 .. Len(str) : str[i] \in Letters \cup Digits \cup {"$", "_", "."}

CallbackMatches(str) ==
    \/ IsIdentifier(str)
    \/ /\ Len(str) >= 2
       /\ str[Len(str)] = "\n"
       /\ IsIdentifier(SubSeq(str, 1, Len(str) - 1))

\* content, lines 283-287: '%s(%s);' % (callback, data) when the first
\* callback value matches
Wrapped(text) ==
    IF args.callback # <<>> /\ CallbackMatches(args.callback[1])
    THEN <<Tok("callback", args.callback[1]), Punct("(")>> \o text
           \o <<Punct(")"), Punct(";")>>
    ELSE text

(* ---------------------------------------------------------------------- *)
(* The queue projections, call by call                                    *)
(* ---------------------------------------------------------------------- *)

\* asDict of a queue resource step by step: "global" is
\* QueueJsonResource, "builder" BuilderPendingBuildsJsonResource, "single"
\* SinglePendingBuildsJsonResource.  started and fired hold the positions
\* (in builds, or in pending while converting) of the Deferreds the
\* projection has started, and of those the store has fired.  "children" is
\* the default asDict, of the exporter's root: seen holds the names of
\* self.children the loop has taken, name the one it is at, dict the data
\* collected, and started and fired the names of the children whose asDict
\* has been called and has fired.
Scopes == {"global", "builder", "single", "children"}

ScopeUrl(scope) ==
    CASE scope = "global" -> UrlQueue
      [] scope = "builder" -> UrlBuilderPending
      [] scope = "single" -> UrlPending
      [] scope = "children" -> UrlRoot

QueueInit ==
    /\ store \in Stores
    /\ args \in {NoArgs, [NoArgs EXCEPT !.codebases = {"trunk"}]}
    /\ \E scope \in Scopes :
          /\ scope = "global" \/ BuilderA \in BuilderNames
          /\ proj = [IdleProj EXCEPT !.scope = scope,
                                     !.pc = IF scope = "children" THEN "render"
                                            ELSE "list"]
          /\ url = ScopeUrl(scope)
    /\ children = [c \in MemoContainers |-> <<>>]
    /\ select = <<>>
    /\ pc = "content"
    /\ self = RootNode
    /\ order = <<>>
    /\ idx = 0
    /\ data = Null
    /\ node = <<>>
    /\ child = RootNode
    /\ childDict = Ok(Null)
    /\ prepath = url
    /\ postpath = <<>>
    /\ savedPath = [prepath |-> <<>>, postpath |-> <<>>]
    /\ mergeLog = <<>>
    /\ response = "none"

Request_vars ==
    <<store, args, children, url, select, pc, self, order, idx, data, node,
      child, childDict, prepath, postpath, savedPath, mergeLog, response>>

\* the store's answer to the listing call arrives:
\* getUnclaimedBuildRequest(sorted=True), getPendingBuildRequestStatuses()
ProjList ==
    /\ proj.pc = "list"
    /\ proj' = [proj EXCEPT !.builds = store.pending, !.i = 1,
                            !.pc = IF proj.scope = "single" THEN "filter"
                                   ELSE "spawn"]
    /\ UNCHANGED Request_vars

\* the store fires one of the Deferreds under way, in any order
Fire ==
    /\ \E d \in proj.started \ proj.fired :
          proj' = [proj EXCEPT !.fired = proj.fired \cup {d}]
    /\ UNCHANGED Request_vars

\* SinglePending, lines 870-878: the next request is tested against the
\* codebases; one that passes has its submit time asked for
SingleFilter ==
    /\ proj.scope = "single"
    /\ proj.pc = "filter"
    /\ IF proj.i > Len(proj.builds)
       THEN proj' = [proj EXCEPT !.pc = "sort"]
       ELSE IF /\ args.codebases # {}
               /\ ~FoundCodebasesInPendingBuild(proj.builds[proj.i], args.codebases)
       THEN proj' = [proj EXCEPT !.i = proj.i + 1]
       ELSE proj' = [proj EXCEPT !.pc = "fetch", !.started = {proj.i},
                                 !.fired = {}]
    /\ UNCHANGED Request_vars

\* SinglePending, lines 878-879: getSubmitTime has fired; the request is
\* appended with its sort_value, or the failure ends asDict
SingleFetched ==
    /\ proj.scope = "single"
    /\ proj.pc = "fetch"
    /\ proj.i \in proj.fired
    /\ IF proj.builds[proj.i].fails
       THEN proj' = [proj EXCEPT !.pc = "done", !.result = "failed"]
       ELSE proj' = [proj EXCEPT !.pending = Append(proj.pending, proj.builds[proj.i]),
                                 !.i = proj.i + 1, !.pc = "filter"]
    /\ UNCHANGED Request_vars

\* SinglePending, line 884: pending = sorted(pending, cmp=sort_queue)
SingleSort ==
    /\ proj.scope = "single"
    /\ proj.pc = "sort"
    /\ proj' = [proj EXCEPT !.pending = SortQueue(proj.pending), !.i = 1,
                            !.pc = "convert"]
    /\ UNCHANGED Request_vars

\* SinglePending, lines 888-892: asDict_async of the next request is
\* started, or the output is returned
SingleConvert ==
    /\ proj.scope = "single"
    /\ proj.pc = "convert"
    /\ IF proj.i > Len(proj.pending)
       THEN proj' = [proj EXCEPT !.pc = "done", !.result = "ok"]
       ELSE proj' = [proj EXCEPT !.pc = "converting", !.started = {proj.i},
                                 !.fired = {}]
    /\ UNCHANGED Request_vars

\* SinglePending, lines 889-890: asDict_async has fired
SingleConverted ==
    /\ proj.scope = "single"
    /\ proj.pc = "converting"
    /\ proj.i \in proj.fired
    /\ proj' = [proj EXCEPT !.output = Append(proj.output,
                                              PendingDict(proj.pending[proj.i])),
                            !.i = proj.i + 1, !.pc = "convert"]
    /\ UNCHANGED Request_vars

\* Queue, lines 825-828, and BuilderPending, lines 404-406: asDict_async
\* is started for every request of the listing
Spawn ==
    /\ proj.scope \in {"global", "builder"}
    /\ proj.pc = "spawn"
    /\ proj' = [proj EXCEPT !.started = DOMAIN proj.builds, !.fired = {},
                            !.pc = IF proj.scope = "global" THEN "collect"
                                   ELSE "gather"]
    /\ UNCHANGED Request_vars

\* Queue, lines 831-835: the Deferreds are waited for in the order of the
\* listing
QueueCollect ==
    /\ proj.scope = "global"
    /\ proj.pc = "collect"
    /\ IF proj.i > Len(proj.builds)
       THEN proj' = [proj EXCEPT !.pc = "done", !.result = "ok"]
       ELSE /\ proj.i \in proj.fired
            /\ IF proj.builds[proj.i].fails
               THEN proj' = [proj EXCEPT !.pc = "done", !.result = "failed"]
               ELSE proj' = [proj EXCEPT
                               !.output = Append(proj.output,
                                                 PendingDict(proj.builds[proj.i])),
                               !.i = proj.i + 1]
    /\ UNCHANGED Request_vars

\* BuilderPending, line 405: defer.gatherResults fails with the first
\* failure fired, and succeeds, results in the order of the list, when all
\* have fired
Gather ==
    /\ proj.scope = "builder"
    /\ proj.pc = "gather"
    /\ IF \E d \in proj.fired : proj.builds[d].fails
       THEN proj' = [proj EXCEPT !.pc = "done", !.result = "failed"]
       ELSE /\ proj.fired = proj.started
            /\ proj' = [proj EXCEPT
                          !.output = [d \in DOMAIN proj.builds |->
                                        PendingDict(proj.builds[d])],
                          !.pc = "done", !.result = "ok"]
    /\ UNCHANGED Request_vars

\* the asDict of the resource waits for a call of the store (a yield of a
\* Deferred the store fires, or the Deferred returned); the asDict of the
\* other resources returns a value, which maybeDeferred wraps in a Deferred
\* that has fired
RECURSIVE AwaitsStore(_)
AwaitsStore(n) ==
    IF HasCustomAsDict(n)
    THEN n.k \in {"Queue", "BuilderPending", "SinglePending", "SingleProject",
                  "SingleProjectBuilder", "Global"}
    ELSE \E name \in DOMAIN DataChildren(n) : AwaitsStore(DataChildren(n)[name])

\* JsonResource.asDict, lines 295-299 and 303-305: the next name of
\* self.children (a dict: in no order the code chooses) is resolved and, for
\* a JsonResource, its asDict called; after the last one the data is
\* returned
DefaultRender ==
    /\ proj.scope = "children"
    /\ proj.pc = "render"
    /\ LET names == DOMAIN StaticChildren(self)
       IN  IF names = {}
           THEN proj' = [proj EXCEPT !.pc = "done", !.result = "failed"]
           ELSE IF names \subseteq proj.seen
           THEN proj' = [proj EXCEPT !.pc = "done", !.result = "ok"]
           ELSE \E name \in names \ proj.seen :
                   IF IsJsonResource(GetChildWithDefault(self, name, 0, children).v)
                   THEN proj' = [proj EXCEPT
                                   !.seen = proj.seen \cup {name},
                                   !.name = name,
                                   !.started = proj.started \cup {name},
                                   !.fired =
                                      IF AwaitsStore(GetChildWithDefault(
                                                        self, name, 0, children).v)
                                      THEN proj.fired
                                      ELSE proj.fired \cup {name},
                                   !.pc = "await"]
                   ELSE proj' = [proj EXCEPT !.seen = proj.seen \cup {name}]
    /\ UNCHANGED Request_vars

\* JsonResource.asDict, lines 300-301: the child's Deferred has fired; its
\* value is stored under the name, or its failure ends asDict
DefaultAwaited ==
    /\ proj.scope = "children"
    /\ proj.pc = "await"
    /\ proj.name \in proj.fired
    /\ LET r == AsDict(GetChildWithDefault(self, proj.name, 0, children).v)
       IN  IF r.ok
           THEN proj' = [proj EXCEPT !.dict = (proj.name :> r.v) @@ proj.dict,
                                     !.pc = "render"]
           ELSE proj' = [proj EXCEPT !.pc = "done", !.result = "failed"]
    /\ UNCHANGED Request_vars

QueueNext ==
    \/ ProjList
    \/ Fire
    \/ SingleFilter
    \/ SingleFetched
    \/ SingleSort
    \/ SingleConvert
    \/ SingleConverted
    \/ Spawn
    \/ QueueCollect
    \/ Gather
    \/ DefaultRender
    \/ DefaultAwaited

QueueSpec == QueueInit /\ [][QueueNext]_vars

(* ---------------------------------------------------------------------- *)
(* A request from the first store call to its outcome                     *)
(* ---------------------------------------------------------------------- *)

\* content, line 275: the Deferred of self.asDict has fired; its value is
\* the Document, or its failure leaves content
ContentReturn ==
    /\ pc = "content"
    /\ proj.scope # "idle"
    /\ proj.pc = "done"
    /\ IF proj.result = "ok"
       THEN /\ data' = IF proj.scope = "children" THEN JMap(proj.dict)
                       ELSE JList(proj.output)
            /\ childDict' = Ok(data')
            /\ pc' = "format"
       ELSE /\ childDict' = Raise("Failure")
            /\ pc' = "raised"
            /\ UNCHANGED data
    /\ UNCHANGED <<store, args, proj, children, url, select, self, order, idx, node,
                   child, prepath, postpath, savedPath, mergeLog, response>>

\* the steps the reactor runs: the callbacks of the Deferreds that have
\* fired, and the generator up to its next yield
Program ==
    \/ ProjList
    \/ SingleFilter
    \/ SingleFetched
    \/ SingleSort
    \/ SingleConvert
    \/ SingleConverted
    \/ Spawn
    \/ QueueCollect
    \/ Gather
    \/ DefaultRender
    \/ DefaultAwaited
    \/ ContentReturn
    \/ RenderOk
    \/ RenderFail

LiveNext ==
    \/ Program
    \/ Fire

\* the requests followed to their outcome: the queue projections on every
\* master, the default asDict of the root on the master whose store fails a
\* call
LiveInit ==
    /\ QueueInit
    /\ proj.scope = "children" =>
          /\ store.pending = PendingLists[4]
          /\ args = NoArgs

\* the reactor runs a callback that can run; when the store fires a
\* Deferred is left to the store
LiveSpec == LiveInit /\ [][LiveNext]_vars /\ WF_vars(Program)

(* ---------------------------------------------------------------------- *)
(* The end of content, statement by statement                             *)
(* ---------------------------------------------------------------------- *)

\* the values the flags are written with
AsTextValues == { <<>>, << <<"1">> >> }
FilterValues ==
    { <<>>, << <<"0">> >>, << <<"T", "r", "u", "e">> >>, << <<"y", "e", "s">> >> }
CompactValues ==
    { <<>>, << <<"1">> >>, << <<"F", "A", "L", "S", "E">> >>, << <<"2">> >> }
CallbackValues ==
    { <<>>, << <<"f", "o", "o", ".", "b", "_", "1">> >>, << <<"1", ";", "e">> >>,
      << <<"f", "o", "o", "\n">> >>, << <<>> >> }

\* every writing of the three flags without a callback, and every callback
\* with as_text written or not
FormatArgs ==
    { [NoArgs EXCEPT !.as_text = a, !.filter = f, !.compact = c] :
        a \in AsTextValues, f \in FilterValues, c \in CompactValues }
    \cup { [NoArgs EXCEPT !.as_text = a, !.callback = cb] :
             a \in AsTextValues, cb \in CallbackValues }

\* the URLs whose Document is formatted
UrlSteps == <<K("builders"), BuilderA, K("builds"), Minus("1"), K("steps")>>
UrlSlave == <<K("slaves"), SlaveA>>
UrlSourceStamp == <<K("builders"), BuilderA, K("builds"), Minus("1"), K("source_stamp")>>

FormatUrls == {UrlBuild, UrlSteps, UrlAll, UrlSlave, UrlSourceStamp, UrlBuilder}

ResolvedNode(u) ==
    ResolveLoop([raised |-> FALSE, err |-> "", child |-> RootNode,
                 prepath |-> <<>>, postpath |-> u, ch |-> <<>>]).child

\* dicts a build's asDict may return beside the ones of BuildDict: text and
\* properties with empty values in them
StoreDicts ==
    { JMap(K("text") :> JList(<<JStr(K("build")), JStr(<<>>)>>)
        @@ K("results") :> JInt(0)),
      JMap(K("properties") :>
             JList(<<JList(<<JStr(K("branch")), Null, JStr(K("Build"))>>),
                     JList(<<JStr(<<>>), Null>>)>>)
        @@ K("number") :> JInt(3)),
      JMap(K("logs") :> JList(<<JList(<<>>), JMap(K("url") :> JStr(<<>>))>>)
        @@ K("eta") :> Null
        @@ K("currentStep") :> JMap(K("text") :> JList(<<>>)
                                    @@ K("isStarted") :> JBool(FALSE))),
      JMap(K("reason") :> JStr(<<"a", "\"", "b", "\\">>)
        @@ K("blame") :> JList(<<JInt(0), JBool(FALSE)>>)
        @@ K("times") :> JList(<<JInt(0 - 5), JInt(12)>>)) }

FormatInit ==
    /\ store \in {st \in Stores : st.builders # <<>> /\ st.next > st.first}
    /\ args \in FormatArgs
    /\ url \in FormatUrls
    /\ self = ResolvedNode(url)
    /\ \/ childDict = AsDict(self)
       \/ url = UrlBuild /\ childDict \in {Ok(d) : d \in StoreDicts}
    /\ childDict.ok
    /\ data = childDict.v
    /\ pc = "format"
    /\ proj = IdleProj
    /\ children = [c \in MemoContainers |-> <<>>]
    /\ select = <<>>
    /\ order = <<>>
    /\ idx = 0
    /\ node = <<>>
    /\ child = RootNode
    /\ prepath = url
    /\ postpath = <<>>
    /\ savedPath = [prepath |-> <<>>, postpath |-> <<>>]
    /\ mergeLog = <<>>
    /\ response = "none"

Format_vars ==
    <<store, args, proj, children, url, select, self, order, idx, node, child,
      childDict, prepath, postpath, savedPath, mergeLog, response>>

\* content, lines 277-278: if filter_out: data = FilterOut(data)
FormatFilter ==
    /\ pc = "format"
    /\ data' = IF FilterFlag THEN FilterOut(data) ELSE data
    /\ pc' = "dumps"
    /\ UNCHANGED Format_vars

\* content, lines 279-282: data = json.dumps(data, ...)
FormatDumps ==
    /\ pc = "dumps"
    /\ data' = Dumps(data, CompactFlag, 0)
    /\ pc' = "callback"
    /\ UNCHANGED Format_vars

\* content, lines 283-288: the callback, and the text returned
FormatCallback ==
    /\ pc = "callback"
    /\ data' = Wrapped(data)
    /\ pc' = "write"
    /\ UNCHANGED Format_vars

\* render_GET, lines 213-216: request.write(data); request.finish()
FormatWrite ==
    /\ pc = "write"
    /\ response' = "written"
    /\ pc' = "done"
    /\ UNCHANGED <<store, args, proj, children, url, select, self, order, idx,
                   data, node, child, childDict, prepath, postpath, savedPath,
                   mergeLog>>

FormatNext ==
    \/ FormatFilter
    \/ FormatDumps
    \/ FormatCallback
    \/ FormatWrite

FormatSpec == FormatInit /\ [][FormatNext]_vars

(* ---------------------------------------------------------------------- *)
(* Vocabulary of the properties                                           *)
(* ---------------------------------------------------------------------- *)

\* the non-empty segments of a select entry, in walk order
Segs(s) == FilterNone(SplitSlash(StripSlash(s)))

SegCount(s) == Len(Segs(s))

Finished == pc = "done" /\ response \in {"written", "failed"}

\* what the request ended with: the Document written, or the failure
Result == IF response = "written" THEN Ok(data) ELSE Raise(childDict.err)

\* the resource an entry's walk from the requested resource ends at
Walked(s) == WalkItem(self, EmptyMap, StripSlash(s), <<>>, children)

\* the entry names a resource of the tree
Resolves(s) == ~Walked(s).raised /\ IsJsonResource(Walked(s).child)

RECURSIVE HasPath(_, _)
HasPath(doc, p) ==
    IF p = <<>> THEN TRUE
    ELSE /\ doc.t = "map"
         /\ Head(p) \in DOMAIN doc.m
         /\ HasPath(doc.m[Head(p)], Tail(p))

\* d is a written as a followed by a separator and further segments
IsWrittenBelow(d, a) ==
    /\ Len(d) > Len(a) + 1
    /\ SubSeq(d, 1, Len(a)) = a
    /\ d[Len(a) + 1] = "/"
    /\ Segs(SubSeq(d, Len(a) + 2, Len(d))) # <<>>

\* the segments of a are a proper prefix of those of d
IsBelow(d, a) ==
    /\ SegCount(d) > SegCount(a)
    /\ SubSeq(Segs(d), 1, SegCount(a)) = Segs(a)

Selecting == select # <<>> /\ pc \notin {"resolve", "content", "other"}
          /\ response # "other"

\* the entry being walked or merged
CurrentItem == Stripped(select)[order[idx + 1]]

(* ---------------------------------------------------------------------- *)
(* C1                                                                     *)
(* ---------------------------------------------------------------------- *)

\* C1: for a path A (of at least one segment) that resolves from the
\* requested node and a descendant path A/B that resolves too, the
\* selection {A, A/B} ends with the same Document as the selection {A}.
C1_OverlayIdempotent ==
    (/\ Finished
     /\ Len(select) = 2
     /\ SegCount(select[1]) >= 1
     /\ IsWrittenBelow(select[2], select[1])
     /\ Resolves(select[1])
     /\ Resolves(select[2]))
    => Result = Compose(self, <<select[1]>>)

(* ---------------------------------------------------------------------- *)
(* C2                                                                     *)
(* ---------------------------------------------------------------------- *)

\* the value an entry's resource renders as
Rendered(s) == RenderChild(Walked(s).child).v

\* C2: when two entries A/B and A/C share their first segment and differ
\* afterwards, the composed Document holds the results of both.
C2_SharedPrefixKept ==
    (/\ Finished
     /\ response = "written"
     /\ Len(select) = 2
     /\ SegCount(select[1]) >= 2
     /\ SegCount(select[2]) >= 2
     /\ Head(Segs(select[1])) = Head(Segs(select[2]))
     /\ ~IsBelow(select[1], select[2])
     /\ ~IsBelow(select[2], select[1])
     /\ Segs(select[1]) # Segs(select[2])
     /\ Resolves(select[1])
     /\ Resolves(select[2]))
    => \A i \in 1 .. 2 :
          /\ HasPath(data, Segs(select[i]))
          /\ GetAt(data, Segs(select[i])) = Rendered(select[i])

(* ---------------------------------------------------------------------- *)
(* C3                                                                     *)
(* ---------------------------------------------------------------------- *)

\* the positions in q come in descending order of key, equal keys in the
\* order of the input
DescendingStable(q, key) ==
    \A i, j \in DOMAIN q :
        i < j => \/ key[q[i]] > key[q[j]]
                 \/ key[q[i]] = key[q[j]] /\ q[i] < q[j]

\* the merges so far are the first entries of the processing order
MergedInOrder == mergeLog = SubSeq(order, 1, Len(mergeLog))

\* C3 as stated: the entries are processed and merged in descending order
\* of segment count (the non-empty segments the walk consumes), entries of
\* equal segment count in input order.
C3_BySegmentCount ==
    Selecting =>
        /\ MergedInOrder
        /\ DescendingStable(order, [i \in DOMAIN select |-> SegCount(select[i])])

\* C3 as amended: the entries are processed and merged in descending order
\* of the number of separators left in the entry once its leading and
\* trailing separators are stripped, entries of equal count in input order.
C3_BySeparatorCount ==
    Selecting =>
        /\ MergedInOrder
        /\ DescendingStable(order,
                            [i \in DOMAIN select |-> CountSlash(StripSlash(select[i]))])

\* two entries given shallow first have been merged deep first
C3_Witness ==
    /\ Finished
    /\ response = "written"
    /\ mergeLog = <<2, 1>>

(* ---------------------------------------------------------------------- *)
(* C4                                                                     *)
(* ---------------------------------------------------------------------- *)

\* C4 as stated: for an ancestor path A and a descendant of it, the
\* selections [A, A/B] and [A/B, A] end with identical Documents.
C4_AnyAncestor ==
    (/\ Finished
     /\ Len(select) = 2
     /\ IsBelow(select[2], select[1]))
    => Result = Compose(self, <<select[2], select[1]>>)

\* C4 as amended: the same for an ancestor path A of at least one segment
\* and the descendant written A/B.
C4_NonEmptyAncestor ==
    (/\ Finished
     /\ Len(select) = 2
     /\ SegCount(select[1]) >= 1
     /\ IsWrittenBelow(select[2], select[1]))
    => Result = Compose(self, <<select[2], select[1]>>)

\* [A, A/B] has been composed and written, the descendant merged first
C4_Witness ==
    /\ Finished
    /\ response = "written"
    /\ Len(select) = 2
    /\ SegCount(select[1]) >= 1
    /\ IsWrittenBelow(select[2], select[1])
    /\ Resolves(select[2])
    /\ mergeLog = <<2, 1>>

(* ---------------------------------------------------------------------- *)
(* C5                                                                     *)
(* ---------------------------------------------------------------------- *)

\* C5: for a selection path that resolves to a node, the node's rendered
\* value (a mapping, a sequence or null) is in the Document at the key path
\* of the consumed segments, and the composition does not fail.
C5_RenderedValuePlaced ==
    (/\ Finished
     /\ Len(select) = 1
     /\ Resolves(select[1])
     /\ RenderChild(Walked(select[1]).child).ok)
    => /\ response = "written"
       /\ HasPath(data, Segs(select[1]))
       /\ GetAt(data, Segs(select[1])) = Rendered(select[1])

(* ---------------------------------------------------------------------- *)
(* C6                                                                     *)
(* ---------------------------------------------------------------------- *)

\* C6: a selection path with a segment that cannot be resolved leaves the
\* 'Not available' marker in its slot and the request succeeds.
C6_UnresolvedIsolated ==
    (/\ Finished
     /\ Len(select) = 1
     /\ ~Resolves(select[1]))
    => /\ response = "written"
       /\ HasPath(data, Segs(select[1]))
       /\ GetAt(data, Segs(select[1])) = NotAvailable

(* ---------------------------------------------------------------------- *)
(* C7                                                                     *)
(* ---------------------------------------------------------------------- *)

\* C7: the requested node's own rendering is at the top level of the
\* Document exactly when the selection holds an empty entry: an empty entry
\* alone gives the default rendering; select=&select=X gives the node's own
\* fields and the X subtree; without an empty entry only the selected
\* subtrees are there.
C7_EmptyEntrySelectsSelf ==
    /\ (Finished /\ Len(select) = 1 /\ Segs(select[1]) = <<>>)
          => Result = AsDict(self)
    /\ (/\ Finished
        /\ Len(select) = 2
        /\ Segs(select[1]) = <<>>
        /\ SegCount(select[2]) = 1
        /\ Resolves(select[2])
        /\ RenderChild(Walked(select[2]).child).ok
        /\ AsDict(self).ok)
          => /\ response = "written"
             /\ HasPath(data, Segs(select[2]))
             /\ GetAt(data, Segs(select[2])) = Rendered(select[2])
             /\ \A key \in DOMAIN AsDict(self).v.m \ {Segs(select[2])[1]} :
                   /\ key \in DOMAIN data.m
                   /\ data.m[key] = AsDict(self).v.m[key]
    /\ (/\ Finished
        /\ response = "written"
        /\ select # <<>>
        /\ \A i \in DOMAIN select : Segs(select[i]) # <<>>)
          => DOMAIN data.m = {Segs(select[i])[1] : i \in DOMAIN select}

(* ---------------------------------------------------------------------- *)
(* C8                                                                     *)
(* ---------------------------------------------------------------------- *)

IsEmptyEntry(i) == StripSlash(select[i]) = <<>>

\* C8 as stated: an entry that is empty after stripping is dropped when the
\* selection has other entries.
C8_EmptyDropped ==
    (Selecting /\ \E j \in DOMAIN select : ~IsEmptyEntry(j))
    => \A i \in DOMAIN order : ~IsEmptyEntry(order[i])

\* C8 as amended: an entry that is empty after stripping is never dropped,
\* whatever else the selection holds: every entry is processed, and the
\* walk of an empty entry consumes nothing and ends at the requested node.
C8_EmptyKept ==
    Selecting =>
        /\ Len(order) = Len(select)
        /\ {order[i] : i \in DOMAIN order} = DOMAIN select
        /\ (pc = "merge" /\ CurrentItem = <<>>)
              => child = self /\ node = <<>> /\ childDict = AsDict(self)

\* an empty entry of a selection that has another entry is being merged
C8_Witness ==
    /\ pc = "merge"
    /\ Len(select) = 2
    /\ CurrentItem = <<>>
    /\ \E j \in DOMAIN select : ~IsEmptyEntry(j)

(* ---------------------------------------------------------------------- *)
(* C9                                                                     *)
(* ---------------------------------------------------------------------- *)

\* the segment the walk of a one-segment entry under builds resolved
AtBuildIndex(seg) ==
    /\ pc = "merge"
    /\ self = BuildsNode(BuilderA)
    /\ Segs(CurrentItem) = <<seg>>

MatchingBuilds(n) ==
    LET passing == SelectSeq(Descending(History),
                             LAMBDA x : PassesFilters(x, args.branch,
                                                      args.codebases, args.results))
    IN  IF n.owner = "builder" THEN passing
        ELSE SelectSeq(passing, LAMBDA x : SlaveOfBuild(x) = n.name)

\* C10: a last-N node renders exactly the N most recent matching builds, or
\* all of them when there are fewer, under a builder and under a slave.
C10_LastNCount ==
    (/\ Finished
     /\ select = <<>>
     /\ args = NoArgs
     /\ self.k = "PastBuilds")
    => /\ response = "written"
       /\ data = JList(BuildDicts(SubSeq(MatchingBuilds(self), 1,
                                         Min(self.num, Len(MatchingBuilds(self))))))

(* ---------------------------------------------------------------------- *)
(* C11                                                                    *)
(* ---------------------------------------------------------------------- *)

\* the build numbers of a rendered list of builds
NumbersOf(list) == [i \in DOMAIN list.l |-> list.l[i].m[K("number")].i]

\* a last-N node has been rendered as the whole response
LastNRendered ==
    /\ Finished
    /\ response = "written"
    /\ select = <<>>
    /\ self.k = "PastBuilds"

\* C11: a build that fails a codebase, branch or result filter of the
\* request never appears in a last-N rendering and is not counted toward N
\* (the N most recent builds that pass are all there), under a builder and
\* under a slave.
C11_FilteredLastN ==
    LastNRendered =>
        LET shown == NumbersOf(data)
            due == SubSeq(MatchingBuilds(self), 1,
                          Min(self.num, Len(MatchingBuilds(self))))
        IN  /\ \A i \in DOMAIN shown :
                  PassesFilters(shown[i], args.branch, args.codebases,
                                args.results)
            /\ \A j \in DOMAIN due : \E i \in DOMAIN shown : shown[i] = due[j]

\* C11 under a builder: the rendering is exactly the N most recent builds
\* that pass the filters of the request
C11_FilteredLastNOfBuilder ==
    (LastNRendered /\ self.owner = "builder") =>
        NumbersOf(data) = SubSeq(MatchingBuilds(self), 1,
                                 Min(self.num, Len(MatchingBuilds(self))))

\* a last-2 node under the builder was rendered with a results filter that
\* rejects the most recent build but one
C11_BuilderWitness ==
    /\ LastNRendered
    /\ self.owner = "builder"
    /\ args.results = {0}
    /\ History = 0 .. 10
    /\ NumbersOf(data) = <<10, 8>>

(* ---------------------------------------------------------------------- *)
(* C12                                                                    *)
(* ---------------------------------------------------------------------- *)

\* the URL is a segment under a builder's or a slave's builds, and has been
\* resolved
UnderBuilds ==
    /\ pc # "resolve"
    /\ Len(url) = 4
    /\ url[3] = K("builds")
    /\ \/ url[1] = K("builders") /\ url[2] = BuilderA /\ BuilderA \in BuilderNames
       \/ url[1] = K("slaves") /\ url[2] \in SlaveNames

LastSegment == url[Len(url)]

\* the last-N node of the container the URL names
LastNOf(num) ==
    IF url[1] = K("builders") THEN PastBuildsNode(num, "builder", url[2])
    ELSE PastBuildsNode(num, "slave", url[2])

\* C12 as stated: a segment that begins with the less-than marker resolves
\* to a last-N node whose count is the integer written after the marker, or
\* 15 when what follows the marker does not parse as an integer.
C12_CountAfterMarker ==
    (UnderBuilds /\ LastSegment # <<>> /\ Head(LastSegment) = "<")
    => LET after == Tail(LastSegment)
       IN  self = LastNOf(IF IS_INT(after) THEN ToInt(after) ELSE 15)

\* C12 as amended: a segment with the less-than marker in it resolves to a
\* last-N node whose count is the integer left when every marker is taken
\* out of the segment, or 15 when what is left does not parse as an
\* integer: <5 gives 5, <abc gives 15, <5< gives 5.
C12_CountWithoutMarkers ==
    /\ (UnderBuilds /\ \E i \in DOMAIN LastSegment : LastSegment[i] = "<")
       => LET left == SelectSeq(LastSegment, LAMBDA c : c # "<")
          IN  self = LastNOf(IF IS_INT(left) THEN ToInt(left) ELSE 15)
    /\ (UnderBuilds /\ url = UrlLastFive)
       => self = PastBuildsNode(5, "builder", BuilderA)
    /\ (UnderBuilds /\ url = UrlLastAbc)
       => self = PastBuildsNode(15, "slave", SlaveA)
    /\ (UnderBuilds /\ url = UrlLastTwice)
       => self = PastBuildsNode(5, "builder", BuilderA)

\* <abc under a slave's builds has resolved to the last-15 node, and the
\* node was rendered
C12_Witness ==
    /\ Finished
    /\ response = "written"
    /\ url = UrlLastAbc
    /\ self = PastBuildsNode(15, "slave", SlaveA)

(* ---------------------------------------------------------------------- *)
(* C13                                                                    *)
(* ---------------------------------------------------------------------- *)

\* the _all child of the builder's builds has been rendered as the whole
\* response
AllRendered ==
    /\ Finished
    /\ response = "written"
    /\ select = <<>>
    /\ self = AllBuildsNode(BuilderA)

\* the builds of the history that pass every filter of the request
PassingHistory ==
    {n \in History : PassesFilters(n, args.branch, args.codebases, args.results)}

\* C13: the rendering of _all holds every build of the builder's history
\* that satisfies the supplied filters, however many they are (no max
\* argument is supplied).
C13_AllUncapped ==
    (AllRendered /\ args.max = <<>>)
    => \A n \in PassingHistory : IntKey(n) \in DOMAIN data.m

(* ---------------------------------------------------------------------- *)
(* C14                                                                    *)
(* ---------------------------------------------------------------------- *)

\* C14: with filters supplied, the rendering of _all holds only builds that
\* satisfy every codebase, branch and result filter, and the builds a
\* filter rejects use up nothing of the bound on the builds returned: as
\* many passing builds are there as the bound allows.
C14_AllFiltered ==
    (/\ AllRendered
     /\ args.branch # {} \/ args.codebases # {} \/ args.results # {})
    => /\ \A n \in History :
              IntKey(n) \in DOMAIN data.m
                 => PassesFilters(n, args.branch, args.codebases, args.results)
       /\ Cardinality(DOMAIN data.m) = Min(MaxArg, Cardinality(PassingHistory))

(* ---------------------------------------------------------------------- *)
(* C15                                                                    *)
(* ---------------------------------------------------------------------- *)

\* the builder's builds listing has been rendered as the whole response
BuildsRendered ==
    /\ Finished
    /\ response = "written"
    /\ select = <<>>
    /\ self = BuildsNode(BuilderA)

\* C15: the default builds listing holds only the builds of the in-memory
\* cache, and with numbuilds=<n> it holds more than the cache does, up to
\* n builds of the history.
C15_NumbuildsExtends ==
    /\ (BuildsRendered /\ args.numbuilds = <<>>)
       => \A i \in DOMAIN data.l : NumbersOf(data)[i] \in Cached
    /\ (BuildsRendered /\ args.numbuilds # <<>>
          /\ args.numbuilds[1] >= Cardinality(Cached))
       => Len(data.l) = Min(args.numbuilds[1], Cardinality(History))


(* ---------------------------------------------------------------------- *)
(* The queue projections                                                  *)
(* ---------------------------------------------------------------------- *)

\* the submit times and the request ids of a projected list
SubmitTimes(out) == [i \in DOMAIN out |-> out[i].m[K("submittedAt")].i]
Brids(out) == [i \in DOMAIN out |-> out[i].m[K("brid")].i]

\* where the store lists the request
ListingPos(brid) == CHOOSE i \in DOMAIN store.pending : store.pending[i].brid = brid

\* the requests of the listing that pass the codebases of the request
Survivors ==
    {store.pending[i].brid : i \in
        {j \in DOMAIN store.pending :
            \A c \in args.codebases : store.pending[j].branch = c}}

NonDecreasing(q) == \A i, j \in DOMAIN q : i < j => q[i] <= q[j]

ProjDone(scope) == proj.scope = scope /\ proj.pc = "done" /\ proj.result = "ok"

\* C16: pending/<builder> comes out in non-decreasing submit-time order,
\* requests of equal submit time in the order of the listing, whatever the
\* listing order and the firing order; when the sort has been applied every
\* surviving request has had its submit time fetched.
C16_SinglePendingSorted ==
    proj.scope = "single" =>
        /\ (proj.pc \in {"convert", "converting"} \/ proj.result = "ok") =>
               {proj.pending[i].brid : i \in DOMAIN proj.pending} = Survivors
        /\ proj.result = "ok" =>
               /\ NonDecreasing(SubmitTimes(proj.output))
               /\ \A i, j \in DOMAIN proj.output :
                     (/\ i < j
                      /\ SubmitTimes(proj.output)[i] = SubmitTimes(proj.output)[j])
                     => ListingPos(Brids(proj.output)[i])
                          < ListingPos(Brids(proj.output)[j])
               /\ {Brids(proj.output)[i] : i \in DOMAIN proj.output} = Survivors
               /\ Len(proj.output) = Cardinality(Survivors)
               /\ Ok(JList(proj.output)) = SinglePendingAsDict([k |-> "SinglePending", b |-> BuilderA])

\* the listing 30, 10, 20 has come out as 10, 20, 30
C16_Witness ==
    /\ ProjDone("single")
    /\ [i \in DOMAIN store.pending |-> store.pending[i].submit] = <<30, 10, 20>>
    /\ SubmitTimes(proj.output) = <<10, 20, 30>>


\* C17: every queue projection - buildqueue, a builder's pendingBuilds and
\* pending/<builder> - lists its entries in non-decreasing submit-time
\* order, whatever the listing order and the firing order.
C17_EveryProjectionSorted ==
    proj.result = "ok" => NonDecreasing(SubmitTimes(proj.output))

\* C18: with a non-empty codebase filter no request that fails it is in
\* the projection, for buildqueue and for pending/<builder>; with an empty
\* filter no request is dropped.
C18_CodebaseFiltered ==
    (proj.scope \in {"global", "single"} /\ proj.result = "ok") =>
        /\ args.codebases # {} =>
              {Brids(proj.output)[i] : i \in DOMAIN proj.output} \subseteq Survivors
        /\ args.codebases = {} => Len(proj.output) = Len(store.pending)


(* ---------------------------------------------------------------------- *)
(* Failures                                                               *)
(* ---------------------------------------------------------------------- *)

\* the resources whose asDict runs when n is rendered: n, and below a
\* resource of the default asDict its children
RECURSIVE RenderedBelow(_)
RenderedBelow(n) ==
    {n} \cup
    IF HasCustomAsDict(n) THEN {}
    ELSE UNION {RenderedBelow(DataChildren(n)[name]) :
                   name \in DOMAIN DataChildren(n)}

\* the store fails a fetch of the queue projection n
FetchFails(n) ==
    CASE n.k \in {"Queue", "BuilderPending"} ->
            \E i \in DOMAIN store.pending : store.pending[i].fails
      [] n.k = "SinglePending" ->
            \E i \in DOMAIN store.pending :
                /\ store.pending[i].fails
                /\ \A c \in args.codebases : store.pending[i].branch = c
      [] OTHER -> FALSE

\* a constituent of the request fails: a queue fetch of the resource
\* rendered, of one of the children its rendering holds, or of the
\* resource one of the select entries names
ConstituentFails ==
    /\ IsJsonResource(self)
    /\ IF select = <<>>
       THEN \E m \in RenderedBelow(self) : FetchFails(m)
       ELSE \E i \in DOMAIN select :
               /\ Resolves(select[i])
               /\ \E m \in RenderedBelow(Walked(select[i]).child) : FetchFails(m)

\* C19: a request one of whose constituents fails ends on the failure
\* path; a body is written only when the request is done, and it is the
\* complete Document.
C19_FailureFailsRequest ==
    /\ (Finished /\ ConstituentFails) => response = "failed"
    /\ pc # "done" => response = "none"
    /\ response = "written" =>
          LET whole == IF select = <<>> THEN AsDict(self) ELSE Compose(self, select)
          IN  whole.ok /\ data = whole.v

\* two entries were selected, the first was merged, the queue fetch of the
\* second failed, and the request has failed
C19_Witness ==
    /\ Finished
    /\ response = "failed"
    /\ Len(select) = 2
    /\ idx = 1
    /\ data # EmptyMap
    /\ ConstituentFails


(* ---------------------------------------------------------------------- *)
(* Dynamic children                                                       *)
(* ---------------------------------------------------------------------- *)

\* the containers that build children on demand
DynamicContainers == {"Builds", "AllBuilds", "BuildSteps", "SlaveBuilds"}

\* the container the last segment of the URL was resolved in
UrlParent ==
    ResolveLoop([raised |-> FALSE, err |-> "", child |-> RootNode,
                 prepath |-> <<>>, postpath |-> SubSeq(url, 1, Len(url) - 1),
                 ch |-> children]).child

\* the container the last segment of the entry just walked was resolved in,
\* and that segment
ItemParent ==
    Walked(Join(SubSeq(Segs(CurrentItem), 1, SegCount(CurrentItem) - 1))).child

ItemSegment == Segs(CurrentItem)[SegCount(CurrentItem)]

\* the last segment of the URL has been resolved in a dynamic container
\* that built the resource for it
UrlBuiltOnDemand ==
    /\ pc # "resolve"
    /\ url # <<>>
    /\ LastSegment # <<>>
    /\ IsJsonResource(self)
    /\ UrlParent.k \in DynamicContainers
    /\ LastSegment \notin DOMAIN StaticChildren(UrlParent)

\* the last segment of the entry just walked has been resolved in a
\* dynamic container that built, or had built, the resource for it
ItemBuiltOnDemand ==
    /\ select # <<>>
    /\ pc = "merge"
    /\ SegCount(CurrentItem) >= 1
    /\ IsJsonResource(child)
    /\ ItemParent.k \in DynamicContainers
    /\ ItemSegment \notin DOMAIN StaticChildren(ItemParent)

\* the container holds the node under the segment, and resolving the
\* segment again returns that node and builds nothing
StoredIn(parent, seg, n) ==
    /\ seg \in DOMAIN Children(parent, children)
    /\ Children(parent, children)[seg] = n
    /\ GetChildWithDefault(parent, seg, 0, children) = Found(n, children)

C21_MissingChildNotFound ==
    (Selecting /\ pc \in {"merge", "raised", "format", "done"}) =>
        \A i \in DOMAIN select : ~Walked(select[i]).raised

(* ---------------------------------------------------------------------- *)
(* The builds _all examines                                               *)
(* ---------------------------------------------------------------------- *)

\* the num most recent builds of the cache
MostRecent(num) == {n \in Cached : n >= store.next - num}

\* C30: _all with max=N examines the N most recent builds, offsets -1 to
\* -N, and returns at most N entries keyed by build number, each build
\* once; without max N is the size of the build cache.  (No filter is
\* supplied, so every build examined is returned.)
C30_AllExaminesMostRecent ==
    (/\ AllRendered
     /\ args.branch = {} /\ args.codebases = {} /\ args.results = {})
    => /\ DOMAIN data.m = {IntKey(n) : n \in MostRecent(MaxArg)}
       /\ Cardinality(DOMAIN data.m) <= MaxArg


(* ---------------------------------------------------------------------- *)
(* The default rendering of a container                                   *)
(* ---------------------------------------------------------------------- *)

\* the containers of the default asDict whose children are the builders,
\* slaves and projects of the master
DataContainers ==
    {"Builders", "Slaves", "Projects", "Pending", "BuilderSlaves", "SingleProject"}

\* the resource of the URL was rendered, without select, to the end
PlainFinished == Finished /\ select = <<>> /\ IsJsonResource(self)

\* C22: the Unimplemented failure never results from the data of the
\* master: a container whose registry is empty because the master has no
\* builders, slaves or projects renders as an empty mapping, and a request
\* whose rendering holds such a container does not fail with it.
C22_EmptyRegistryRenders ==
    /\ (/\ PlainFinished
        /\ self.k \in DataContainers
        /\ DOMAIN StaticChildren(self) = {})
       => (response = "written" /\ data = EmptyMap)
    /\ (/\ PlainFinished
        /\ \E m \in RenderedBelow(self) : m.k \in DataContainers)
       => ~(response = "failed" /\ childDict.err = "NotImplementedError")

\* C23: the default rendering of a container is a mapping whose keys are
\* exactly the names of its children that are data nodes, whatever the
\* names are.
C23_KeysAreDataChildren ==
    (/\ PlainFinished
     /\ response = "written"
     /\ ~HasCustomAsDict(self))
    => DOMAIN data.m =
         {name \in DOMAIN StaticChildren(self) :
             IsJsonResource(StaticChildren(self)[name])}


(* ---------------------------------------------------------------------- *)
(* Filtering                                                              *)
(* ---------------------------------------------------------------------- *)

\* null, false, the empty string, the empty sequence, the empty mapping
IsEmptyValue(v) ==
    \/ v.t = "null"
    \/ v.t = "bool" /\ ~v.b
    \/ v.t = "str" /\ v.s = <<>>
    \/ v.t = "list" /\ v.l = <<>>
    \/ v.t = "map" /\ DOMAIN v.m = {}

\* the Document of the request has been filtered
Filtered == pc = "dumps" /\ FilterFlag

\* C24: with filtering on, an entry of a mapping is removed if and only if
\* its filtered value is null, false, the empty string, an empty sequence
\* or an empty mapping; every other entry is kept with its filtered value,
\* an entry whose value is the integer 0 among them.
C24_RemovedIffEmpty ==
    (Filtered /\ childDict.v.t = "map") =>
        \A key \in DOMAIN childDict.v.m :
            LET fv == FilterOut(childDict.v.m[key])
            IN  /\ key \notin DOMAIN data.m <=> IsEmptyValue(fv)
                /\ key \in DOMAIN data.m => data.m[key] = fv

\* no value inside v, as the value of a mapping or as the element of a
\* sequence, is empty
RECURSIVE NoEmptyInside(_)
NoEmptyInside(v) ==
    CASE v.t = "map" ->
            \A key \in DOMAIN v.m :
                ~IsEmptyValue(v.m[key]) /\ NoEmptyInside(v.m[key])
      [] v.t = "list" ->
            \A i \in DOMAIN v.l : ~IsEmptyValue(v.l[i]) /\ NoEmptyInside(v.l[i])
      [] OTHER -> TRUE

\* C25: what the filter returns holds no null, false, empty string, empty
\* sequence or empty mapping at any depth, neither as the value of a
\* mapping nor as the element of a sequence.
C25_NoEmptyAtAnyDepth == Filtered => NoEmptyInside(data)

\* C26: filtering is idempotent: filter(filter(d)) = filter(d) for the
\* Document of every request, and filtering the filtered Document of a
\* request changes nothing.
C26_FilterIdempotent ==
    /\ pc = "format" => FilterOut(FilterOut(data)) = FilterOut(data)
    /\ Filtered => FilterOut(data) = data

\* the filter has taken something out of the Document, and filtering what
\* is left takes out nothing
C26_Witness ==
    /\ Filtered
    /\ data # childDict.v
    /\ \E key \in DOMAIN childDict.v.m :
          /\ childDict.v.m[key].t = "map"
          /\ DOMAIN childDict.v.m[key].m # {}
          /\ key \notin DOMAIN data.m
    /\ FilterOut(data) = data

(* ---------------------------------------------------------------------- *)
(* The flags                                                              *)
(* ---------------------------------------------------------------------- *)

\* the value is the word, upper or lower case
Spelled(value, word) ==
    /\ Len(value) = Len(word)
    /\ \A i \in DOMAIN value :
          \/ value[i] = word[i]
          \/ <<value[i], word[i]>> \in
                {<<"T", "t">>, <<"R", "r">>, <<"U", "u">>, <<"E", "e">>,
                 <<"F", "f">>, <<"A", "a">>, <<"L", "l">>, <<"S", "s">>}

\* a flag as the options table has it: the value supplied when it is one
\* of 1, true, 0, false, else the default
FlagOr(arg, default) ==
    IF arg = <<>> THEN default
    ELSE IF Spelled(arg[1], <<"1">>) \/ Spelled(arg[1], <<"t", "r", "u", "e">>)
    THEN TRUE
    ELSE IF Spelled(arg[1], <<"0">>) \/ Spelled(arg[1], <<"f", "a", "l", "s", "e">>)
    THEN FALSE
    ELSE default

\* C27: filter defaults to as_text and compact to the negation of as_text;
\* a supplied 1, true, 0 or false (in any case) overrides the default, and
\* any other supplied value leaves the default in force: the Document is
\* filtered, and serialized compact or indented, accordingly.
C27_FlagDefaults ==
    LET as_text == FlagOr(args.as_text, FALSE)
        filter_out == FlagOr(args.filter, as_text)
        compact == FlagOr(args.compact, ~as_text)
        filtered == IF filter_out THEN FilterOut(childDict.v) ELSE childDict.v
    IN  /\ pc = "dumps" => data = filtered
        /\ pc = "callback" => data = Dumps(filtered, compact, 0)

\* as_text=1 with filter=yes and compact=FALSE: the Document was filtered
\* and serialized indented
C27_Witness ==
    /\ pc = "callback"
    /\ args.as_text = << <<"1">> >>
    /\ args.filter = << <<"y", "e", "s">> >>
    /\ args.compact = << <<"F", "A", "L", "S", "E">> >>
    /\ data = Dumps(FilterOut(childDict.v), FALSE, 0)
    /\ data # Dumps(childDict.v, TRUE, 0)

(* ---------------------------------------------------------------------- *)
(* The callback                                                           *)
(* ---------------------------------------------------------------------- *)

\* C28: the output is wrapped as <callback>(<json>); exactly when the
\* callback value, the whole of it, matches [A-Za-z_$][A-Za-z0-9_.$]*; for
\* any other value the output is the JSON text alone.
C28_WrappedIffIdentifier ==
    pc = "write" =>
        LET text == Dumps(IF FilterFlag THEN FilterOut(childDict.v) ELSE childDict.v,
                          CompactFlag, 0)
        IN  IF args.callback # <<>> /\ IsIdentifier(args.callback[1])
            THEN data = <<Tok("callback", args.callback[1]), Punct("(")>> \o text
                          \o <<Punct(")"), Punct(";")>>
            ELSE data = text

(* ---------------------------------------------------------------------- *)
(* Serialization                                                          *)
(* ---------------------------------------------------------------------- *)

\* C29: with filtering off, the compact serialization of the Document
\* parses to a structure equal to the Document, and the compact and the
\* indented serialization parse to the same structure.
C29_RoundTrip ==
    (pc = "callback" /\ ~FilterFlag) =>
        /\ Loads(data) = childDict.v
        /\ Loads(Dumps(childDict.v, TRUE, 0)) = Loads(Dumps(childDict.v, FALSE, 0))

(* ---------------------------------------------------------------------- *)
(* Segments left at a resource without children                           *)
(* ---------------------------------------------------------------------- *)

\* a resource that renders itself, with no children and no getChild of its
\* own
NonDescendable(n) ==
    /\ IsJsonResource(n)
    /\ HasCustomAsDict(n)
    /\ n.k \notin DynamicContainers
    /\ DOMAIN Children(n, children) = {}

\* the first i segments of the entry
Prefix(s, i) == SubSeq(Segs(s), 1, i)

\* the walk of the first i segments ends at a resource that cannot be
\* descended, and segments other than help remain
LeftAt(s, i) ==
    /\ i \in 1 .. SegCount(s) - 1
    /\ ~Walked(Join(Prefix(s, i))).raised
    /\ NonDescendable(Walked(Join(Prefix(s, i))).child)
    /\ Segs(s)[i + 1] # K("help")

\* C31: when segments remain at a node that cannot be descended (no
\* children, no dynamic resolution), the walk stops there, the remaining
\* segments are discarded and the node's rendering is merged at the key path
\* of the consumed segments; the request does not fail.
C31_WalkStopsAtLeaf ==
    \A i \in 1 .. 3 :
        (Finished /\ Len(select) = 1 /\ LeftAt(select[1], i)) =>
            /\ response = "written"
            /\ HasPath(data, Prefix(select[1], i))
            /\ GetAt(data, Prefix(select[1], i))
                 = AsDict(Walked(Join(Prefix(select[1], i))).child).v

(* ---------------------------------------------------------------------- *)
(* The shared resource tree                                               *)
(* ---------------------------------------------------------------------- *)

\* C32: the only change made to the resource tree is the addition of a
\* newly built dynamic child to a container's child mapping: a key that is
\* bound stays bound, and to the same node instance.
C32_BindingsOnlyAdded ==
    [][\A c \in MemoContainers :
          \A key \in DOMAIN children[c] :
             /\ key \in DOMAIN children'[c]
             /\ children'[c][key] = children[c][key]]_vars

(* ---------------------------------------------------------------------- *)
(* Fetches of the submit times                                            *)
(* ---------------------------------------------------------------------- *)

\* C34: in pending/<builder> the submit-time fetches of the surviving
\* requests run concurrently: when the projection waits for the result of
\* one of them, the fetch of every surviving request has been started.
C34_FetchesConcurrent ==
    (proj.scope = "single" /\ proj.pc = "fetch") =>
        {proj.builds[d].brid : d \in proj.started} = Survivors

(* ---------------------------------------------------------------------- *)
(* The default asDict, child by child                                     *)
(* ---------------------------------------------------------------------- *)

\* the children of the resource that are rendered
RenderedNames == DOMAIN DataChildren(self)

\* C33: the default asDict starts the rendering of every child before it
\* waits for any of them: when it waits for a child, the asDict of every
\* child has been called.
C33_ChildrenFanOut ==
    (proj.scope = "children" /\ proj.pc = "await" /\ proj.name \notin proj.fired) =>
        proj.started = RenderedNames

\* the default asDict, when it ends well, returns what AsDict gives: every
\* child rendered, under its name
DefaultAsDictComplete ==
    (proj.scope = "children" /\ proj.pc = "done") =>
        IF AsDict(self).ok
        THEN proj.result = "ok" /\ JMap(proj.dict) = AsDict(self).v
        ELSE proj.result = "failed"

(* ---------------------------------------------------------------------- *)
(* The outcome of a request                                               *)
(* ---------------------------------------------------------------------- *)

\* the store calls under way on behalf of the request
Outstanding == proj.started \ proj.fired

EventuallyFinished == <>Finished

(* ---------------------------------------------------------------------- *)
(* The request's paths                                                    *)
(* ---------------------------------------------------------------------- *)

\* request.prepath and request.postpath are what they were when content
\* was entered: the URL consumed, nothing left
PathsAtEntry == prepath = url /\ postpath = <<>>

\* C36: every entry's walk starts from the resource that handles the
\* request with the request's paths as they were at entry, and when the
\* composition has ended, by success or by the failure of an entry, prepath
\* and postpath are what they were at entry.
C36_PathsRestored ==
    (Selecting /\ order # <<>>) =>
        /\ pc = "walk" => PathsAtEntry
        /\ pc \in {"format", "raised", "done"} => PathsAtEntry

\* the same for the compositions that end well
PathsRestoredOnSuccess ==
    (Selecting /\ order # <<>>) =>
        /\ pc = "walk" => PathsAtEntry
        /\ (pc \in {"format", "done"} /\ response # "failed") => PathsAtEntry

(* ---------------------------------------------------------------------- *)
(* The marker anywhere in the segment                                     *)
(* ---------------------------------------------------------------------- *)

\* the integer left when every marker is deleted from the segment, or 15
MarkerCount(seg) ==
    LET left == SelectSeq(seg, LAMBDA c : c # "<")
    IN  IF IS_INT(left) THEN ToInt(left) ELSE 15

\* the last-N node of a builds container
LastNIn(parent, num) ==
    IF parent.k = "SlaveBuilds" THEN PastBuildsNode(num, "slave", parent.s)
    ELSE PastBuildsNode(num, "builder", parent.b)

\* C37: under a builder's builds or a slave's builds a segment that holds
\* the less-than marker at any position resolves - in the URL and in a
\* selection entry - to a last-N node, never to the not-found resource, and
\* the node's count is the integer left when every marker is deleted from
\* the segment (negative when it is written so), or 15 when what is left is
\* not an integer.
C37_MarkerAnywhere ==
    /\ (UnderBuilds /\ HasLt(LastSegment)) =>
          /\ pc # "other"
          /\ response # "other"
          /\ self = LastNIn(UrlParent, MarkerCount(LastSegment))
    /\ (/\ select # <<>>
        /\ pc = "merge"
        /\ SegCount(CurrentItem) >= 1
        /\ ItemParent.k \in {"Builds", "AllBuilds", "SlaveBuilds"}
        /\ HasLt(ItemSegment)) =>
          child = LastNIn(ItemParent, MarkerCount(ItemSegment))

\* -1< under a slave's builds has resolved to the last-N node of count -1,
\* and the node was rendered
C37_Witness ==
    /\ Finished
    /\ response = "written"
    /\ url = UrlSlaveMarkerLast
    /\ self = PastBuildsNode(0 - 1, "slave", SlaveA)

\* -<2 under a builder's builds has resolved to the last-N node of count -2
MarkerInsideReached ==
    /\ url = UrlLastNegative
    /\ pc = "content"
    /\ self = PastBuildsNode(0 - 2, "builder", BuilderA)

\* the entry 1<< of a selection under a builder's builds has been walked to
\* the last-1 node
MarkerSelectedReached ==
    /\ url = UrlBuilds
    /\ pc = "merge"
    /\ HasLt(ItemSegment)
    /\ child = PastBuildsNode(1, "builder", BuilderA)

====
